---- MODULE Spec2Model ----
(***************************************************************************)
(* A model of the TRACE agent (src/src/trace_agent): the streaming filter  *)
(* that hides <think>...</think> spans, the ConversationState entity layer *)
(* and the PLAN + ReAct orchestration of TraceAgent.run_plan.              *)
(*                                                                         *)
(* Text is a sequence of one-character strings, so that find(), lower(),   *)
(* join() and slicing are computed as the Python code computes them.       *)
(***************************************************************************)
EXTENDS Integers, Sequences, FiniteSets, TLC

VARIABLES
    \* ---- _ThinkStreamFilter and the stream it is fed (agent.py:43-77)
    stream,      \* the whole text the model streams, fixed when the stream starts
    fed,         \* how many characters of stream have been passed to feed()
    prevFed,     \* the value of fed before the latest feed() call
    buffer,      \* _ThinkStreamFilter._buffer
    suppress,    \* _ThinkStreamFilter._suppress
    visible,     \* the return value of the latest feed() call
    sink,        \* everything forwarded to stream_handler, concatenated
    chunks,      \* how many chunks the running _invoke_agent has handled
    chunk_text,  \* the text of the latest message of the latest chunk
    open_at_end, \* whether the filter in use when the previous stream ended
                 \* was inside a span then
    \* ---- TraceAgent and its collaborators (agent.py:80-90)
    config,        \* AgentConfig: auto_execute, approval_callback (is one
                   \* configured), max_react_turns, min_react_turns
    llm,           \* the chat model handed to the constructor: how it answers
    overall_goal,  \* ConversationState.overall_goal, <<>> for None, else <<text>>
    topo_json,     \* ConversationState.topo_json
    plan_context,  \* ConversationState.plan_context.steps: the dict's entries in
                   \* insertion order, each [step, results]
    current_step,  \* ConversationState.current_step, "None" when unset
    persistent_prompts, \* ConversationState.persistent_prompts: the dict's
                        \* entries <<name, text>>
    \* ---- the activation of run_plan / _run_generic_react
    pc,            \* where run_plan stands
    is_scene,      \* run_plan's local is_scene
    step_index,    \* position of the for loop over generate_plan(), 1-based
    turn,          \* the loop variable turn of the running turn loop
    step_result,   \* the StepResult returned by _run_react_turn, <<>> before
    results,       \* _run_generic_react's local list results
    context_text,  \* _run_react_turn's local context_text of the latest turn
    lc_messages,   \* TraceAgent._lc_state["messages"]
    base_len,      \* _run_react_turn's local base_len of the latest turn
    intervened,    \* whether the approval callback has rejected or edited yet
    \* ---- history, for the statement of the properties
    step_history,  \* the arguments of the set_current_step calls, in order
    turn_log,      \* the executed turns, in order: [loop, step, turn, result,
                   \* outcome, answer]: result is what _run_react_turn
                   \* returned, answer what the callback returned if invoked
    classifier_answer, \* the model's answer to the classifier prompt, if asked
    \* ---- direct calls of single methods
    calls,         \* how many ConversationState methods the caller has invoked
    last_call,     \* the latest such call: [op, step, result]
    complete,      \* the value returned by _step_is_complete, <<>> before
    parse_content  \* the argument content of a direct _parse_react_blocks call

filterVars == <<stream, fed, prevFed, buffer, suppress, visible, sink, chunks,
                chunk_text, open_at_end>>

stateVars == <<overall_goal, topo_json, plan_context, current_step,
               persistent_prompts>>

runVars == <<pc, is_scene, step_index, turn, step_result, results, context_text,
             lc_messages, base_len, intervened>>

historyVars == <<step_history, turn_log, classifier_answer>>

apiVars == <<calls, last_call, complete, parse_content>>

agentVars == <<config, llm, stateVars, runVars, historyVars, apiVars>>

vars == <<filterVars, agentVars>>

----------------------------------------------------------------------------
(* Bounds of the model.                                                    *)

\* A streamed text is built from at most this many pieces of StreamPieces.
MaxPieces == 3

----------------------------------------------------------------------------
(* Text helpers: Python's str operations on sequences of characters.       *)

\* "".join / concatenation of a sequence of texts.
RECURSIVE Concat(_)
Concat(parts) ==
    IF parts = <<>> THEN <<>> ELSE Head(parts) \o Concat(Tail(parts))

\* str.find(sub): the 1-based index of the first occurrence, 0 when absent
\* (Python: the 0-based index, -1 when absent).
Find(s, sub) ==
    LET hits == {i \in 1..(Len(s) - Len(sub) + 1) :
                    SubSeq(s, i, i + Len(sub) - 1) = sub}
    IN  IF hits = {} THEN 0 ELSE CHOOSE i \in hits : \A j \in hits : i <= j

\* s[n:] for a 0-based n, i.e. s without its first n characters.
DropFirst(s, n) == SubSeq(s, n + 1, Len(s))

\* sub in s
Contains(s, sub) == Find(s, sub) # 0

\* The number of positions of s holding character c.
CountChar(s, c) == Cardinality({i \in 1..Len(s) : s[i] = c})

----------------------------------------------------------------------------
(* The entity layer (memory.py).                                           *)

\* PlanStep, in declaration order (memory.py:11-17).
PlanSteps ==
    <<"UNDERSTAND_INTENT", "SELECT_NODE_TYPES", "DIVIDE_ZONES",
      "ASSIGN_NODE_ATTRIBUTES", "GENERATE_JSON", "GENERATE_SCENEGRAPH",
      "VERIFY_CODE">>

\* Optional values: <<>> is None, <<v>> is the value v.
None == <<>>
Some(v) == <<v>>

\* Python truthiness of an Optional[str]: neither None nor "".
Truthy(opt) == opt # None /\ opt[1] # <<>>

\* ConversationState() (memory.py:62-66): topo_json is the empty dict. A
\* topology document is written as its text.
EmptyTopo == <<"{", "}">>

\* Python truthiness of an Optional[dict]: neither None nor {}.
TruthyTopo(opt) == opt # None /\ opt[1] # EmptyTopo

\* StepResult (memory.py:33-40).
StepResult(think, action, observe, output) ==
    [think |-> think, action |-> action, observe |-> observe, output |-> output]

\* The results stored for step in the dict, <<>> when the key is absent.
ResultsOf(steps, step) ==
    LET hits == {i \in 1..Len(steps) : steps[i].step = step}
    IN  IF hits = {} THEN <<>> ELSE steps[CHOOSE i \in hits : TRUE].results

\* add_result that puts the new result in the place of the step's list.
AddResultReplacing(steps, step, result) ==
    IF \E i \in 1..Len(steps) : steps[i].step = step
    THEN [i \in 1..Len(steps) |->
             IF steps[i].step = step
             THEN [steps[i] EXCEPT !.results = <<result>>]
             ELSE steps[i]]
    ELSE Append(steps, [step |-> step, results |-> <<result>>])

\* PlanContext.add_result (memory.py:49-50): setdefault(step, []).append(result).
\* A new key goes to the end of the dict.
AddResult(steps, step, result) ==
    IF \E i \in 1..Len(steps) : steps[i].step = step
    THEN [i \in 1..Len(steps) |->
             IF steps[i].step = step
             THEN [steps[i] EXCEPT !.results = Append(@, result)]
             ELSE steps[i]]
    ELSE Append(steps, [step |-> step, results |-> <<result>>])

\* record_step without the test for GENERATE_JSON: any step's output
\* overwrites topo_json.
RecordStepAnyStep(steps, topo, step, result) ==
    [plan_context |-> AddResult(steps, step, result),
     topo_json |-> IF Truthy(result.output) THEN result.output[1] ELSE topo]

\* ConversationState.record_step (memory.py:77-80): the new plan_context and
\* the new topo_json.
RecordStep(steps, topo, step, result) ==
    [plan_context |-> AddResult(steps, step, result),
     topo_json |-> IF step = "GENERATE_JSON" /\ Truthy(result.output)
                   THEN result.output[1]
                   ELSE topo]

----------------------------------------------------------------------------
(* Text of the ReAct turns (agent.py:246-302).                             *)

\* str.lower() on the letters the model's texts use.
LowerChar(c) ==
    CASE c = "F" -> "f" [] c = "I" -> "i" [] c = "N" -> "n" [] c = "S" -> "s"
      [] c = "H" -> "h" [] c = "E" -> "e" [] c = "D" -> "d" [] c = "Y" -> "y"
      [] OTHER -> c

Lower(s) == [i \in 1..Len(s) |-> LowerChar(s[i])]

IsSpace(c) == c \in {" ", "\n"}

\* str.strip()
RECURSIVE LStrip(_)
LStrip(s) == IF s # <<>> /\ IsSpace(Head(s)) THEN LStrip(Tail(s)) ELSE s

RECURSIVE RStrip(_)
RStrip(s) ==
    IF s # <<>> /\ IsSpace(s[Len(s)]) THEN RStrip(SubSeq(s, 1, Len(s) - 1)) ELSE s

Trim(s) == RStrip(LStrip(s))

\* sep.join(parts)
RECURSIVE Join(_, _)
Join(sep, parts) ==
    IF parts = <<>> THEN <<>>
    ELSE IF Len(parts) = 1 THEN parts[1]
    ELSE parts[1] \o sep \o Join(sep, Tail(parts))

\* [p for p in parts if p]
RECURSIVE NonEmpty(_)
NonEmpty(parts) ==
    IF parts = <<>> THEN <<>>
    ELSE IF Head(parts) = <<>> THEN NonEmpty(Tail(parts))
    ELSE <<Head(parts)>> \o NonEmpty(Tail(parts))

\* "[finished]" (agent.py:302)
FinishedMarker == <<"[", "f", "i", "n", "i", "s", "h", "e", "d", "]">>

\* The text compared without lower().
CompletionTextCaseSensitive(result) == result.action \o <<" ">> \o result.observe

\* The text of f"{result.action} {result.observe}".lower() (agent.py:300).
CompletionText(result) == Lower(result.action \o <<" ">> \o result.observe)

Max(a, b) == IF a >= b THEN a ELSE b

\* _step_is_complete without the test of the minimum of turns.
StepIsCompleteIgnoringMinimum(result, turn_index, min_react_turns) ==
    Contains(CompletionText(result), FinishedMarker)

\* _step_is_complete with the minimum tested one turn too late.
StepIsCompleteOffByOne(result, turn_index, min_react_turns) ==
    IF (turn_index + 1) <= Max(1, min_react_turns)
    THEN FALSE
    ELSE Contains(CompletionText(result), FinishedMarker)

\* TraceAgent._step_is_complete (agent.py:292-302).
StepIsComplete(result, turn_index, min_react_turns) ==
    IF (turn_index + 1) < Max(1, min_react_turns)
    THEN FALSE
    ELSE Contains(CompletionText(result), FinishedMarker)

\* Messages of the LangChain agent: an AIMessage with its tool calls and its
\* content, or a ToolMessage with its content.
AIMessage(tool_calls, content) ==
    [type |-> "ai", tool_calls |-> tool_calls, content |-> content]
ToolMessage(content) ==
    [type |-> "tool", tool_calls |-> <<>>, content |-> content]
HumanMessage(content) ==
    [type |-> "human", tool_calls |-> <<>>, content |-> content]

\* The three lists _extract_step_result collects (agent.py:251-258).
RECURSIVE ThinkParts(_)
ThinkParts(msgs) ==
    IF msgs = <<>> THEN <<>>
    ELSE (IF Head(msgs).type = "ai" /\ Head(msgs).content # <<>>
          THEN <<Head(msgs).content>> ELSE <<>>) \o ThinkParts(Tail(msgs))

RECURSIVE ActionParts(_)
ActionParts(msgs) ==
    IF msgs = <<>> THEN <<>>
    ELSE (IF Head(msgs).type = "ai" THEN Head(msgs).tool_calls ELSE <<>>)
         \o ActionParts(Tail(msgs))

RECURSIVE ObserveParts(_)
ObserveParts(msgs) ==
    IF msgs = <<>> THEN <<>>
    ELSE (IF Head(msgs).type = "tool" THEN <<Head(msgs).content>> ELSE <<>>)
         \o ObserveParts(Tail(msgs))

\* x or default
OrElse(text, default) == IF text # <<>> THEN text ELSE default

\* The placeholder of agent.py:260 (written in Latin letters here).
NoNewThought == <<"(", "n", "o", "-", "t", "h", "i", "n", "k", ")">>
NotApplicable == <<"N", "/", "A">>

\* _extract_step_result that hands the observation on as the output.
ExtractStepResultWithOutput(new_messages) ==
    LET think == OrElse(Trim(Join(<<"\n">>, NonEmpty(ThinkParts(new_messages)))),
                        NoNewThought)
        action == OrElse(Trim(Join(<<";", " ">>, NonEmpty(ActionParts(new_messages)))),
                         NotApplicable)
        observe == OrElse(Trim(Join(<<"\n">>, NonEmpty(ObserveParts(new_messages)))),
                          think)
    IN  StepResult(think, action, observe, Some(observe))

\* _extract_step_result that keeps the first assistant text only.
ExtractStepResultFirstThink(new_messages) ==
    LET texts == NonEmpty(ThinkParts(new_messages))
        think == OrElse(Trim(IF texts = <<>> THEN <<>> ELSE texts[1]), NoNewThought)
        action == OrElse(Trim(Join(<<";", " ">>, NonEmpty(ActionParts(new_messages)))),
                         NotApplicable)
        observe == OrElse(Trim(Join(<<"\n">>, NonEmpty(ObserveParts(new_messages)))),
                          think)
    IN  StepResult(think, action, observe, None)

\* TraceAgent._extract_step_result (agent.py:246-263), given messages[base_len:].
ExtractStepResult(new_messages) ==
    LET think == OrElse(Trim(Join(<<"\n">>, NonEmpty(ThinkParts(new_messages)))),
                        NoNewThought)
        action == OrElse(Trim(Join(<<";", " ">>, NonEmpty(ActionParts(new_messages)))),
                         NotApplicable)
        observe == OrElse(Trim(Join(<<"\n">>, NonEmpty(ObserveParts(new_messages)))),
                          think)
    IN  StepResult(think, action, observe, None)

----------------------------------------------------------------------------
(* The line parser _parse_react_blocks (agent.py:268-279).                 *)

\* str.splitlines() on texts whose only line break is "\n": the text is cut
\* at every line break, and a line break at the very end opens no new line.
RECURSIVE SplitLines(_)
SplitLines(s) ==
    IF s = <<>> THEN <<>>
    ELSE LET n == Find(s, <<"\n">>)
         IN  IF n = 0 THEN <<s>>
             ELSE <<SubSeq(s, 1, n - 1)>> \o SplitLines(DropFirst(s, n))

\* line.startswith(prefix)
StartsWith(line, prefix) ==
    /\ Len(line) >= Len(prefix)
    /\ SubSeq(line, 1, Len(prefix)) = prefix

\* line.partition(":")[2]: the text after the first colon, "" without one.
AfterColon(line) ==
    LET n == Find(line, <<":">>)
    IN  IF n = 0 THEN <<>> ELSE DropFirst(line, n)

ThinkPrefix == <<"T", "h", "i", "n", "k", ":">>
ActionPrefix == <<"A", "c", "t", "i", "o", "n", ":">>
ObservePrefix == <<"O", "b", "s", "e", "r", "v", "e", ":">>

\* The for loop of _parse_react_blocks (agent.py:270-276): a later line of a
\* kind replaces what an earlier line of that kind set.
RECURSIVE ParseLines(_, _)
ParseLines(lines, found) ==
    IF lines = <<>> THEN found
    ELSE LET line == Head(lines)
             value == Trim(AfterColon(line))
         IN  ParseLines(Tail(lines),
                 IF StartsWith(line, ThinkPrefix)
                 THEN [found EXCEPT !.think = value]
                 ELSE IF StartsWith(line, ActionPrefix)
                 THEN [found EXCEPT !.action = value]
                 ELSE IF StartsWith(line, ObservePrefix)
                 THEN [found EXCEPT !.observe = value]
                 ELSE found)

\* TraceAgent._parse_react_blocks (agent.py:268-279).
ParseReactBlocks(text) ==
    LET found == ParseLines(SplitLines(text),
                            [think |-> <<>>, action |-> <<>>, observe |-> <<>>])
        think == IF found.think = <<>> THEN Trim(text) ELSE found.think
    IN  StepResult(think, OrElse(found.action, NotApplicable),
                   OrElse(found.observe, Trim(text)), None)

----------------------------------------------------------------------------
(* The context snippet of a turn (agent.py:204-214).                       *)

\* PlanStep.label (memory.py:19-30), shortened to the step's number.
Label(step) ==
    CASE step = "UNDERSTAND_INTENT" -> <<"S", "1">>
      [] step = "SELECT_NODE_TYPES" -> <<"S", "2">>
      [] step = "DIVIDE_ZONES" -> <<"S", "3">>
      [] step = "ASSIGN_NODE_ATTRIBUTES" -> <<"S", "4">>
      [] step = "GENERATE_JSON" -> <<"S", "5">>
      [] step = "GENERATE_SCENEGRAPH" -> <<"S", "6">>
      [] step = "VERIFY_CODE" -> <<"S", "7">>

\* The fixed texts of agent.py:207, 213 and 214 (written in Latin letters).
GoalPrefix == <<"g", "o", "a", "l", ":", " ">>
ExtraLabel == <<"c", "t", "x">>
NoHistory == <<"(", "n", "o", "n", "e", ")">>

\* str(n) for a natural number n.
RECURSIVE Decimal(_)
Decimal(n) ==
    LET digit == <<"0", "1", "2", "3", "4", "5", "6", "7", "8", "9">>
    IN  IF n < 10 THEN <<digit[n + 1]>>
        ELSE Decimal(n \div 10) \o <<digit[(n % 10) + 1]>>

\* The lines of one result list numbered from 0.
ResultLinesFromZero(label, step_results) ==
    [idx \in 1..Len(step_results) |->
        label \o <<" ", "#">> \o Decimal(idx - 1) \o <<":", " ">>
              \o step_results[idx].observe]

\* The lines of one result list (agent.py:209-210, 212-213):
\* f"{label} #{idx}: {result.observe}" with enumerate(..., start=1).
ResultLines(label, step_results) ==
    [idx \in 1..Len(step_results) |->
        label \o <<" ", "#">> \o Decimal(idx) \o <<":", " ">>
              \o step_results[idx].observe]

\* The loop over plan_context.steps.items() (agent.py:208-210): the entries
\* of the dict in insertion order.
RECURSIVE StepLines(_)
StepLines(steps) ==
    IF steps = <<>> THEN <<>>
    ELSE ResultLines(Label(Head(steps).step), Head(steps).results)
         \o StepLines(Tail(steps))

\* The list without its last element.
Front(seq) == IF seq = <<>> THEN <<>> ELSE SubSeq(seq, 1, Len(seq) - 1)

\* _context_snippet that misses the latest result of the running loop.
ContextSnippetStale(goal, steps, extra_history) ==
    LET older == IF steps = <<>> THEN <<>>
                 ELSE [steps EXCEPT ![Len(steps)].results = Front(@)]
        parts == (IF Truthy(goal) THEN <<GoalPrefix \o goal[1]>> ELSE <<>>)
                 \o StepLines(older)
                 \o ResultLines(ExtraLabel, Front(extra_history))
    IN  IF parts # <<>> THEN Join(<<"\n">>, parts) ELSE NoHistory

\* TraceAgent._context_snippet (agent.py:204-214).
ContextSnippet(goal, steps, extra_history) ==
    LET parts == (IF Truthy(goal) THEN <<GoalPrefix \o goal[1]>> ELSE <<>>)
                 \o StepLines(steps)
                 \o ResultLines(ExtraLabel, extra_history)
    IN  IF parts # <<>> THEN Join(<<"\n">>, parts) ELSE NoHistory

----------------------------------------------------------------------------
(* _ThinkStreamFilter (agent.py:43-77).                                    *)

StartMarker == <<"<", "t", "h", "i", "n", "k", ">">>
EndMarker == <<"<", "/", "t", "h", "i", "n", "k", ">">>

\* The while loop of feed(): scans the buffer for the next marker and returns
\* the filter's new fields together with the joined visible_parts.
RECURSIVE FeedLoop(_, _, _)
FeedLoop(buf, sup, parts) ==
    IF buf = <<>>
    THEN [buffer |-> buf, suppress |-> sup, visible |-> parts]
    ELSE IF sup
    THEN LET end == Find(buf, EndMarker)
         IN  IF end = 0
             THEN \* still inside a <think> block, drop everything so far
                  [buffer |-> <<>>, suppress |-> sup, visible |-> parts]
             ELSE FeedLoop(DropFirst(buf, (end - 1) + Len(EndMarker)), FALSE, parts)
    ELSE LET start == Find(buf, StartMarker)
         IN  IF start = 0
             THEN [buffer |-> <<>>, suppress |-> sup, visible |-> parts \o buf]
             ELSE FeedLoop(DropFirst(buf, (start - 1) + Len(StartMarker)), TRUE,
                           IF start > 1
                           THEN parts \o SubSeq(buf, 1, start - 1)
                           ELSE parts)

\* feed(chunk) on a filter whose fields are buf and sup.
FilterFeed(buf, sup, chunk) == FeedLoop(buf \o chunk, sup, <<>>)

\* What one feed() call of the whole text to a fresh filter returns.
FeedWhole(text) == FilterFeed(<<>>, FALSE, text).visible

\* The texts a stream is made of: visible letters, letters of hidden
\* reasoning, and the two markers.
StreamPieces == {<<"a">>, <<"s">>, StartMarker, EndMarker}

RECURSIVE PieceSeqs(_)
PieceSeqs(n) ==
    IF n = 0 THEN {<<>>}
    ELSE LET shorter == PieceSeqs(n - 1)
         IN  shorter \cup {Append(ps, p) : ps \in shorter, p \in StreamPieces}

Streams == {Concat(ps) : ps \in PieceSeqs(MaxPieces)}

----------------------------------------------------------------------------
(* TraceAgent (agent.py:80-302).                                           *)

\* The largest max_react_turns an AgentConfig of the model holds.
MaxTurns == 3

\* AgentConfig (agent.py:20-31). approval_callback and stream_handler say
\* whether one is set. The runs of run_plan are modelled without streaming,
\* which is the default; streamed invocations have their own specification.
Configs ==
    [auto_execute : BOOLEAN,
     approval_callback : BOOLEAN,
     max_react_turns : 1..MaxTurns,
     min_react_turns : 1..2,
     stream : {FALSE},
     stream_handler : {FALSE}]

\* The turns of a turn loop at which a chat model of the model may tag its
\* answer.
MarkableTurns == {0, 1, 2}

\* The chat model: shape says whether it answers a turn with plain text or
\* with a tool round trip, mark_turns at which turns (0-based) of a turn loop
\* its answer carries the tag [FINISHED].
ChatModels ==
    [shape : {"text", "tools"}, mark_turns : SUBSET MarkableTurns]

FinishedTag == <<"[", "F", "I", "N", "I", "S", "H", "E", "D", "]">>

\* The messages the LangChain agent appends to the conversation in one turn.
TurnMessages(model, turn_index) ==
    LET marked == turn_index \in model.mark_turns
    IN  IF model.shape = "text"
        THEN <<AIMessage(<<>>, IF marked THEN <<"o", "k", " ">> \o FinishedTag
                                         ELSE <<"o", "k">>)>>
        ELSE <<AIMessage(<<<<"T">>>>, <<"t", "h">>),
               ToolMessage(IF marked THEN FinishedTag ELSE <<"o", "b">>),
               AIMessage(<<>>, <<"f", "i", "n">>)>>

\* generate_plan with two steps in the wrong order.
GeneratePlanSwapped ==
    <<"UNDERSTAND_INTENT", "DIVIDE_ZONES", "SELECT_NODE_TYPES",
      "ASSIGN_NODE_ATTRIBUTES", "GENERATE_JSON", "GENERATE_SCENEGRAPH",
      "VERIFY_CODE">>

\* TraceAgent.generate_plan (agent.py:122-131).
GeneratePlan ==
    <<"UNDERSTAND_INTENT", "SELECT_NODE_TYPES", "DIVIDE_ZONES",
      "ASSIGN_NODE_ATTRIBUTES", "GENERATE_JSON", "GENERATE_SCENEGRAPH",
      "VERIFY_CODE">>

\* What the caller may pass as topo_state to run_plan.
TopoA == <<"{", "A", "}">>
TopoStates == {None, Some(EmptyTopo), Some(TopoA)}

\* What the model may answer to the goal extraction prompt.
GoalResponses == {<<>>, <<" ">>, <<" ", "g", "\n">>}

\* What the model may answer to the classifier prompt.
ClassifierAnswers == {<<>>, <<"n", "o">>, <<"o", "Y", "e", "s">>}

\* The edited think text an approval callback may return.
EditedThinks == {None, Some(<<"e", "d">>)}

\* TraceAgent.__init__ (agent.py:83-90) on a config and a chat model.
AgentInit ==
    /\ config \in Configs
    /\ llm \in ChatModels
    /\ overall_goal = None
    /\ topo_json = EmptyTopo
    /\ plan_context = <<>>
    /\ current_step = "None"
    /\ persistent_prompts = {}
    /\ pc = "init"
    /\ is_scene = FALSE
    /\ step_index = 0
    /\ turn = 0
    /\ step_result = <<>>
    /\ results = <<>>
    /\ context_text = <<>>
    /\ lc_messages = <<>>
    /\ base_len = 0
    /\ intervened = FALSE
    /\ step_history = <<>>
    /\ turn_log = <<>>
    /\ classifier_answer = None

\* run_plan up to the return of derive_goal (agent.py:134-136, 92-94,
\* 104-112): initialize_state seeds the topology, derive_goal stores the
\* trimmed answer of the model as the goal.
RunPlan ==
    /\ pc = "init"
    /\ \E topo_state \in TopoStates, response \in GoalResponses :
          /\ topo_json' = IF TruthyTopo(topo_state) THEN topo_state[1] ELSE topo_json
          /\ overall_goal' = Some(Trim(response))
    /\ pc' = "classify"
    /\ UNCHANGED <<filterVars, config, llm, plan_context, current_step, persistent_prompts, is_scene, step_index,
                   turn, step_result, results, context_text, lc_messages, base_len, intervened, historyVars,
                   apiVars>>

\* Whether is_scene_construction_goal sends the classifier prompt to the
\* model (agent.py:115-118): not without a goal.
ClassifierAsked(goal) == Truthy(goal)

\* is_scene_construction_goal without the test for a goal.
IsSceneNoGoalCheck(goal, answer) == Contains(Lower(answer), <<"y", "e", "s">>)

\* is_scene_construction_goal looking for "yes" in the answer as it came.
IsSceneCaseSensitive(goal, answer) ==
    IF ~Truthy(goal) THEN FALSE ELSE Contains(answer, <<"y", "e", "s">>)

\* is_scene_construction_goal taking every non-empty answer for a yes.
IsSceneAnyAnswer(goal, answer) ==
    IF ~Truthy(goal) THEN FALSE ELSE answer # <<>>

\* is_scene_construction_goal with the model's answer (agent.py:114-120).
IsSceneConstructionGoal(goal, answer) ==
    IF ~Truthy(goal) THEN FALSE ELSE Contains(Lower(answer), <<"y", "e", "s">>)

\* A reset that leaves the message history as it is.
ResetAgentStateKeepsMessages(messages) == messages

\* TraceAgent._reset_agent_state (agent.py:265-266): the new message history.
ResetAgentState(messages) == <<>>

\* run_plan from the classification to the start of a loop (agent.py:137-143,
\* 159-160): the generic branch starts _run_generic_react with an empty list
\* and a reset message history, the scene branch starts the for loop over
\* generate_plan().
Classify ==
    /\ pc = "classify"
    /\ \E answer \in ClassifierAnswers :
          /\ is_scene' = IsSceneConstructionGoal(overall_goal, answer)
          /\ classifier_answer' = IF ClassifierAsked(overall_goal) THEN Some(answer)
                                   ELSE None
    /\ IF is_scene'
       THEN /\ pc' = "step"
            /\ step_index' = 1
            /\ UNCHANGED <<turn, results, lc_messages>>
       ELSE /\ pc' = "generic_turn"
            /\ results' = <<>>
            /\ lc_messages' = ResetAgentState(lc_messages)
            /\ turn' = 0
            /\ UNCHANGED step_index
    /\ UNCHANGED <<filterVars, config, llm, stateVars, step_result, context_text, base_len,
                   intervened, step_history, turn_log, apiVars>>

\* The head of the for loop over the plan (agent.py:143-146): the next step
\* becomes current_step, the message history is reset and the step's turn
\* loop starts at turn 0.
BeginStep ==
    /\ pc = "step"
    /\ current_step' = GeneratePlan[step_index]
    /\ step_history' = Append(step_history, GeneratePlan[step_index])
    /\ lc_messages' = ResetAgentState(lc_messages)
    /\ turn' = 0
    /\ pc' = "turn"
    /\ UNCHANGED <<filterVars, config, llm, overall_goal, topo_json, plan_context,
                   persistent_prompts, is_scene, step_index, step_result, results,
                   context_text, base_len, intervened, turn_log, classifier_answer,
                   apiVars>>

\* A turn loop that runs one turn too many.
HasNextTurnOffByOne(t, max_react_turns) == t + 1 <= max_react_turns

\* range(max_react_turns): whether the turn loop has a turn after turn t.
HasNextTurn(t, max_react_turns) == t + 1 < max_react_turns

\* The human prompt of a turn (agent.py:182-186, prompting.py:96-108): the
\* step's label and the context snippet, the fixed text left out.
HumanPrompt(step, context) == Label(step) \o <<"|">> \o context

\* _run_react_turn after the snippet is rendered (agent.py:188-202): the
\* turn's prompt is appended to a copy of the message history, the agent
\* adds its messages, the whole becomes the new history, and the StepResult
\* is extracted from the messages after base_len.
RunReactTurn(model, turn_index, messages, step, context) ==
    LET current_messages == Append(messages, HumanMessage(HumanPrompt(step, context)))
        turn_base_len == Len(current_messages)
        result_messages == current_messages \o TurnMessages(model, turn_index)
    IN  [messages |-> result_messages,
         base_len |-> turn_base_len,
         result |-> ExtractStepResult(DropFirst(result_messages, turn_base_len))]

LogTurn(loop, step, result) ==
    Append(turn_log, [loop |-> loop, step |-> step, turn |-> turn,
                      result |-> result, outcome |-> "pending",
                      answer |-> None])

Decided(outcome) ==
    [turn_log EXCEPT ![Len(turn_log)].outcome = outcome]

\* The gate returned: the decision on the turn and, when the callback was
\* invoked, what it answered.
Answered(o, answer) ==
    [turn_log EXCEPT ![Len(turn_log)].outcome =
                         IF o.should_continue THEN "accepted" ELSE "rejected",
                     ![Len(turn_log)].answer =
                         IF o.asked THEN Some(answer) ELSE None]

\* One turn of a plan step (agent.py:147-148).
SceneTurn ==
    /\ pc = "turn"
    /\ LET context == ContextSnippet(overall_goal, plan_context, <<>>)
           r == RunReactTurn(llm, turn, lc_messages, GeneratePlan[step_index],
                             context)
       IN  /\ context_text' = context
           /\ lc_messages' = r.messages
           /\ base_len' = r.base_len
           /\ step_result' = Some(r.result)
           /\ turn_log' = LogTurn("scene", GeneratePlan[step_index], r.result)
    /\ pc' = "confirm"
    /\ UNCHANGED <<filterVars, config, llm, stateVars, is_scene, step_index, turn, results,
                   intervened, step_history, classifier_answer, apiVars>>

\* What the approval callback may return: (proceed, edited think).
CallbackAnswers == [proceed : BOOLEAN, edited_think : EditedThinks]

\* The answer that accepts the result as it is.
PlainApproval == [proceed |-> TRUE, edited_think |-> None]

\* _confirm_step that consults the callback even with auto_execute.
ConfirmStepAlwaysAsks(cfg, result, answer) ==
    [result |-> IF Truthy(answer.edited_think)
                THEN [result EXCEPT !.think = answer.edited_think[1]]
                ELSE result,
     should_continue |-> answer.proceed,
     asked |-> TRUE]

\* _confirm_step that writes the edited text into the wrong field.
ConfirmStepEditsObserve(cfg, result, answer) ==
    IF cfg.auto_execute
    THEN [result |-> result, should_continue |-> TRUE, asked |-> FALSE]
    ELSE [result |-> IF Truthy(answer.edited_think)
                     THEN [result EXCEPT !.observe = answer.edited_think[1]]
                     ELSE result,
          should_continue |-> answer.proceed,
          asked |-> TRUE]

\* _confirm_step that applies every edited text that is not None.
ConfirmStepAppliesEmptyEdit(cfg, result, answer) ==
    IF cfg.auto_execute
    THEN [result |-> result, should_continue |-> TRUE, asked |-> FALSE]
    ELSE [result |-> IF answer.edited_think # None
                     THEN [result EXCEPT !.think = answer.edited_think[1]]
                     ELSE result,
          should_continue |-> answer.proceed,
          asked |-> TRUE]

\* _confirm_step when it returns (agent.py:281-290): with auto_execute the
\* result itself and true, otherwise the callback's answer applied.
\* asked tells whether approval_callback was invoked.
ConfirmStep(cfg, result, answer) ==
    IF cfg.auto_execute
    THEN [result |-> result, should_continue |-> TRUE, asked |-> FALSE]
    ELSE [result |-> IF Truthy(answer.edited_think)
                     THEN [result EXCEPT !.think = answer.edited_think[1]]
                     ELSE result,
          should_continue |-> answer.proceed,
          asked |-> TRUE]

\* A gate that never checks for the callback.
GateNeverRaises(cfg) == FALSE

\* _confirm_step raises ValueError (agent.py:284-285).
GateRaises(cfg) == ~cfg.auto_execute /\ ~cfg.approval_callback

\* The answers the callback would give at this call: in one run it departs
\* from plain approval (rejects, or edits the think text) at one turn at most.
\* Whether it is called at all is _confirm_step's matter.
AnswersNow(cfg, used) ==
    {ans \in CallbackAnswers : ans = PlainApproval \/ ~used}

Intervenes(cfg, answer) == ~cfg.auto_execute /\ answer # PlainApproval

\* A break condition that overlooks the rejection.
LoopBreaksIgnoringGate(should_continue, is_complete) == is_complete

\* A turn loop that always ends after its first turn.
LoopBreaksAlways(should_continue, is_complete) == TRUE

\* The break condition of both turn loops (agent.py:152, 169).
LoopBreaks(should_continue, is_complete) == ~should_continue \/ is_complete

\* A plan loop that is left when the gate rejects a turn.
PlanGoesOnUnlessRejected(should_continue, index) ==
    should_continue /\ index < Len(GeneratePlan)

\* Whether the for loop over the plan has a further step after the turn loop
\* of step number index ended (agent.py:143, 153): the break leaves the turn
\* loop only, so the gate's decision plays no part.
PlanGoesOn(should_continue, index) == index < Len(GeneratePlan)

\* The rest of a plan step's turn after _run_react_turn (agent.py:149-154):
\* the gate, record_step for an accepted result, and the loop control.
SceneConfirm ==
    /\ pc = "confirm"
    /\ ~GateRaises(config)
    /\ \E answer \in AnswersNow(config, intervened) :
          LET o == ConfirmStep(config, step_result[1], answer)
              rec == RecordStep(plan_context, topo_json, GeneratePlan[step_index], o.result)
              stop == \/ LoopBreaks(o.should_continue,
                                    StepIsComplete(o.result, turn, config.min_react_turns))
                      \/ ~HasNextTurn(turn, config.max_react_turns)
          IN  /\ intervened' = (intervened \/ Intervenes(config, answer))
              /\ step_result' = Some(o.result)
              /\ plan_context' = IF o.should_continue THEN rec.plan_context
                                 ELSE plan_context
              /\ topo_json' = IF o.should_continue THEN rec.topo_json ELSE topo_json
              /\ turn_log' = Answered(o, answer)
              /\ IF ~stop
                 THEN /\ turn' = turn + 1
                      /\ pc' = "turn"
                      /\ UNCHANGED step_index
                 ELSE IF PlanGoesOn(o.should_continue, step_index)
                 THEN /\ step_index' = step_index + 1
                      /\ pc' = "step"
                      /\ UNCHANGED turn
                 ELSE /\ pc' = "returned"
                      /\ UNCHANGED <<step_index, turn>>
    /\ UNCHANGED <<filterVars, config, llm, overall_goal, current_step, persistent_prompts, is_scene, results,
                   context_text, lc_messages, base_len, step_history, classifier_answer, apiVars>>

\* One turn of the generic loop (agent.py:162-165).
GenericTurn ==
    /\ pc = "generic_turn"
    /\ LET context == ContextSnippet(overall_goal, plan_context, results)
           r == RunReactTurn(llm, turn, lc_messages, "UNDERSTAND_INTENT", context)
       IN  /\ context_text' = context
           /\ lc_messages' = r.messages
           /\ base_len' = r.base_len
           /\ step_result' = Some(r.result)
           /\ turn_log' = LogTurn("generic", "UNDERSTAND_INTENT", r.result)
    /\ pc' = "generic_confirm"
    /\ UNCHANGED <<filterVars, config, llm, stateVars, is_scene, step_index, turn, results,
                   intervened, step_history, classifier_answer, apiVars>>

\* The rest of a generic turn (agent.py:166-171, 141): the gate, the append to
\* the local list, the loop control and the return of run_plan.
GenericConfirm ==
    /\ pc = "generic_confirm"
    /\ ~GateRaises(config)
    /\ \E answer \in AnswersNow(config, intervened) :
          LET o == ConfirmStep(config, step_result[1], answer)
              stop == \/ LoopBreaks(o.should_continue,
                                    StepIsComplete(o.result, turn, config.min_react_turns))
                      \/ ~HasNextTurn(turn, config.max_react_turns)
          IN  /\ intervened' = (intervened \/ Intervenes(config, answer))
              /\ step_result' = Some(o.result)
              /\ results' = IF o.should_continue THEN Append(results, o.result)
                            ELSE results
              /\ turn_log' = Answered(o, answer)
              /\ IF ~stop
                 THEN /\ turn' = turn + 1
                      /\ pc' = "generic_turn"
                 ELSE /\ pc' = "returned"
                      /\ UNCHANGED turn
    /\ UNCHANGED <<filterVars, config, llm, stateVars, is_scene, step_index, context_text, lc_messages, base_len,
                   step_history, classifier_answer, apiVars>>

\* _confirm_step without auto_execute and without approval_callback raises
\* ValueError (agent.py:284-285), which ends run_plan.
ConfirmRaises ==
    /\ pc \in {"confirm", "generic_confirm"}
    /\ GateRaises(config)
    /\ pc' = "raised"
    /\ turn_log' = Decided("raised")
    /\ UNCHANGED <<filterVars, config, llm, stateVars, is_scene, step_index, turn, step_result,
                   results, context_text, lc_messages, base_len, intervened, step_history, classifier_answer,
                   apiVars>>

----------------------------------------------------------------------------
(* Direct calls: the methods of ConversationState and _step_is_complete.   *)

\* How many ConversationState methods the caller invokes in a row.
MaxCalls == 2

\* What a caller may hand to record_step as result.output.
Outputs == {None, Some(<<>>), Some(<<"{", "B", "}">>), Some(<<"{", "C", "}">>)}

ApiResults ==
    {StepResult(<<"t">>, NotApplicable, <<"o">>, out) : out \in Outputs}

\* ConversationState.set_topology (memory.py:71-72).
SetTopology ==
    /\ pc = "api"
    /\ calls < MaxCalls
    /\ \E topo \in {EmptyTopo, TopoA} :
          /\ topo_json' = topo
          /\ last_call' = [op |-> "set_topology", step |-> "None", result |-> <<>>]
    /\ calls' = calls + 1
    /\ UNCHANGED <<filterVars, config, llm, overall_goal, plan_context, current_step, persistent_prompts,
                   runVars, historyVars, complete, parse_content>>

\* ConversationState.record_step (memory.py:77-80).
RecordStepCall ==
    /\ pc = "api"
    /\ calls < MaxCalls
    /\ \E i \in 1..Len(PlanSteps), result \in ApiResults :
          LET rec == RecordStep(plan_context, topo_json, PlanSteps[i], result)
          IN  /\ plan_context' = rec.plan_context
              /\ topo_json' = rec.topo_json
              /\ last_call' = [op |-> "record_step", step |-> PlanSteps[i],
                               result |-> Some(result)]
    /\ calls' = calls + 1
    /\ UNCHANGED <<filterVars, config, llm, overall_goal, current_step, persistent_prompts, runVars,
                   historyVars, complete, parse_content>>

\* What a caller may hand to provide_persistent_prompts.
PromptDicts ==
    {{}, {<<"a", <<"x">>>>}, {<<"a", <<"y">>>>, <<"b", <<"x">>>>}}

\* dict.update: the entries of new replace those of old with the same name.
DictUpdate(old, new) ==
    {entry \in old : \A other \in new : other[1] # entry[1]} \cup new

\* TraceAgent.provide_persistent_prompts (agent.py:315-316).
ProvidePersistentPrompts ==
    /\ pc = "api"
    /\ calls < MaxCalls
    /\ \E prompts \in PromptDicts :
          persistent_prompts' = DictUpdate(persistent_prompts, prompts)
    /\ last_call' = [op |-> "provide_persistent_prompts", step |-> "None",
                     result |-> <<>>]
    /\ calls' = calls + 1
    /\ UNCHANGED <<filterVars, config, llm, overall_goal, topo_json, plan_context,
                   current_step, runVars, historyVars, complete, parse_content>>

\* The texts of the results _step_is_complete is tried on: with the marker in
\* either case, without it, and with the marker cut in two.
MarkerTexts ==
    {<<"o", "k">>, FinishedTag, <<"o", "k", " ">> \o FinishedMarker,
     <<"[", "F", "I", "N", "I">>, <<"s", "h", "e", "d", "]">>, NotApplicable}

\* The turn indexes and the values of min_react_turns it is tried on.
MaxTurnIndex == 3
MaxMinTurns == 4

\* A call of _step_is_complete (agent.py:292-302).
CallStepIsComplete ==
    /\ pc = "call"
    /\ complete' = Some(StepIsComplete(step_result[1], turn, config.min_react_turns))
    /\ pc' = "called"
    /\ UNCHANGED <<filterVars, config, llm, stateVars, is_scene, step_index, turn,
                   step_result, results, context_text, lc_messages, base_len, intervened, historyVars, calls,
                   last_call, parse_content>>

\* The longest answer to the classifier prompt in a direct call.
MaxAnswerLen == 4

\* The answers a direct call of is_scene_construction_goal is tried on: every
\* text of the letters of "yes" in both cases, "n" and the blank.
GateAnswers ==
    UNION {[1..n -> {"y", "e", "s", "Y", "E", "S", "n", " "}] : n \in 0..MaxAnswerLen}

\* The goals the state may hold when is_scene_construction_goal is called.
GateGoals == {None, Some(<<>>), Some(<<"g">>)}

\* A call of is_scene_construction_goal (agent.py:114-120).
CallIsSceneConstructionGoal ==
    /\ pc = "gate"
    /\ \E answer \in GateAnswers :
          /\ is_scene' = IsSceneConstructionGoal(overall_goal, answer)
          /\ classifier_answer' = IF ClassifierAsked(overall_goal) THEN Some(answer)
                                   ELSE None
    /\ pc' = "gated"
    /\ UNCHANGED <<filterVars, config, llm, stateVars, step_index, turn, step_result,
                   results, context_text, lc_messages, base_len, intervened, step_history, turn_log, apiVars>>

\* The largest number of pieces a parsed response is built from.
MaxParsePieces == 4

\* The pieces of a response: the three line heads, a letter, a blank and a
\* line break.
ParsePieces == {ThinkPrefix, ActionPrefix, ObservePrefix, <<"x">>, <<" ">>, <<"\n">>}

ParseContents ==
    {Concat(ps) : ps \in UNION {[1..n -> ParsePieces] : n \in 0..MaxParsePieces}}

\* A call of _parse_react_blocks (agent.py:268-279).
CallParseReactBlocks ==
    /\ pc = "parse"
    /\ step_result' = Some(ParseReactBlocks(parse_content))
    /\ pc' = "parsed"
    /\ UNCHANGED <<filterVars, config, llm, stateVars, is_scene, step_index, turn,
                   results, context_text, lc_messages, base_len, intervened, historyVars, calls, last_call,
                   complete, parse_content>>

----------------------------------------------------------------------------
(* The specifications.                                                     *)

\* AgentConfig() with its defaults (agent.py:22-31).
DefaultConfig ==
    [auto_execute |-> TRUE, approval_callback |-> FALSE,
     max_react_turns |-> 7, min_react_turns |-> 2,
     stream |-> FALSE, stream_handler |-> FALSE]

\* No stream is running.
FilterIdle ==
    /\ stream = <<>>
    /\ fed = 0
    /\ prevFed = 0
    /\ buffer = <<>>
    /\ suppress = FALSE
    /\ visible = <<>>
    /\ sink = <<>>
    /\ chunks = 0
    /\ chunk_text = <<>>
    /\ open_at_end = FALSE

\* No direct call has been made.
ApiIdle ==
    /\ calls = 0
    /\ last_call = [op |-> "None", step |-> "None", result |-> <<>>]
    /\ complete = None
    /\ parse_content = <<>>

\* A freshly constructed agent (agent.py:83-90, memory.py:62-66) on which
\* run_plan is not running.
AgentIdle(at) ==
    /\ config = DefaultConfig
    /\ llm = [shape |-> "text", mark_turns |-> {}]
    /\ overall_goal = None
    /\ topo_json = EmptyTopo
    /\ plan_context = <<>>
    /\ current_step = "None"
    /\ persistent_prompts = {}
    /\ pc = at
    /\ is_scene = FALSE
    /\ step_index = 0
    /\ turn = 0
    /\ step_result = <<>>
    /\ results = <<>>
    /\ context_text = <<>>
    /\ lc_messages = <<>>
    /\ base_len = 0
    /\ intervened = FALSE
    /\ step_history = <<>>
    /\ turn_log = <<>>
    /\ classifier_answer = None

\* run_plan on a freshly constructed agent.
Init == AgentInit /\ FilterIdle /\ ApiIdle

Next ==
    \/ RunPlan
    \/ Classify
    \/ BeginStep
    \/ SceneTurn
    \/ SceneConfirm
    \/ GenericTurn
    \/ GenericConfirm
    \/ ConfirmRaises

Spec == Init /\ [][Next]_vars

\* A fresh _ThinkStreamFilter (agent.py:46-48) about to receive some stream.
FilterInit ==
    /\ stream \in Streams
    /\ fed = 0
    /\ prevFed = 0
    /\ buffer = <<>>
    /\ suppress = FALSE
    /\ visible = <<>>
    /\ sink = <<>>
    /\ chunks = 0
    /\ chunk_text = <<>>
    /\ open_at_end = FALSE
    /\ AgentIdle("stream")
    /\ ApiIdle

\* One stream chunk arrives: _handle_stream_chunk passes it to feed() and
\* forwards the returned text to stream_handler (agent.py:242-244).
FeedChunk ==
    /\ fed < Len(stream)
    /\ \E n \in 1..(Len(stream) - fed) :
          LET chunk == SubSeq(stream, fed + 1, fed + n)
              r == FilterFeed(buffer, suppress, chunk)
          IN  /\ fed' = fed + n
              /\ prevFed' = fed
              /\ buffer' = r.buffer
              /\ suppress' = r.suppress
              /\ visible' = r.visible
              /\ sink' = sink \o r.visible
    /\ UNCHANGED <<stream, chunks, chunk_text, open_at_end, agentVars>>

FilterNext == FeedChunk

\* A stream of the model passing through one filter.
SpecFilter == FilterInit /\ [][FilterNext]_vars

\* How many times _invoke_agent is called in a row, and how many chunks one
\* stream delivers at most.
MaxInvocations == 2
MaxChunks == 2

\* The configurations of streaming: stream and stream_handler set or not.
StreamConfigs ==
    [auto_execute : {TRUE}, approval_callback : {FALSE}, max_react_turns : {7},
     min_react_turns : {2}, stream : BOOLEAN, stream_handler : BOOLEAN]

\* The content of the latest message of a chunk: empty, visible text, a span
\* that is left open, and the end of a span followed by visible text.
ChunkTexts ==
    {<<>>, <<"a">>, StartMarker \o <<"s">>, <<"s">> \o EndMarker \o <<"a">>}

\* A freshly constructed agent, with the filter made by __init__
\* (agent.py:88), about to invoke the LangChain agent turn after turn.
StreamInit ==
    /\ FilterIdle
    /\ ApiIdle
    /\ config \in StreamConfigs
    /\ llm = [shape |-> "text", mark_turns |-> {}]
    /\ overall_goal = None
    /\ topo_json = EmptyTopo
    /\ plan_context = <<>>
    /\ current_step = "None"
    /\ persistent_prompts = {}
    /\ pc = "invoke"
    /\ is_scene = FALSE
    /\ step_index = 0
    /\ turn = 0
    /\ step_result = <<>>
    /\ results = <<>>
    /\ context_text = <<>>
    /\ lc_messages = <<>>
    /\ base_len = 0
    /\ intervened = FALSE
    /\ step_history = <<>>
    /\ turn_log = <<>>
    /\ classifier_answer = None

\* _invoke_agent that goes on with the filter it finds.
StreamFilterKept(cfg, buf, sup) == [buffer |-> buf, suppress |-> sup]

\* The fields of self._stream_filter after the head of _invoke_agent
\* (agent.py:217-218): a new filter when there is a stream with a handler.
StreamFilter(cfg, buf, sup) ==
    IF cfg.stream /\ cfg.stream_handler
    THEN [buffer |-> <<>>, suppress |-> FALSE]
    ELSE [buffer |-> buf, suppress |-> sup]

\* _invoke_agent is entered for the next turn (agent.py:216-220, 229): with
\* stream it starts the agent's stream, without it the agent is invoked and
\* the call returns.
BeginInvoke ==
    /\ pc = "invoke"
    /\ turn < MaxInvocations
    /\ LET f == StreamFilter(config, buffer, suppress)
       IN  /\ buffer' = f.buffer
           /\ suppress' = f.suppress
    /\ chunks' = 0
    /\ IF config.stream
       THEN pc' = "streaming" /\ UNCHANGED turn
       ELSE pc' = "invoke" /\ turn' = turn + 1
    /\ UNCHANGED <<stream, fed, prevFed, visible, sink, chunk_text, open_at_end, config,
                   llm, stateVars, is_scene, step_index, step_result, results, context_text,
                   lc_messages, base_len, intervened, historyVars, apiVars>>

\* One chunk of the stream (agent.py:222-224, 231-244): without a handler,
\* and for an empty text, nothing happens; otherwise the text of the latest
\* message goes through the filter and what it returns to the handler.
HandleStreamChunk ==
    /\ pc = "streaming"
    /\ chunks < MaxChunks
    /\ \E text \in ChunkTexts :
          /\ chunk_text' = text
          /\ IF ~config.stream_handler \/ text = <<>>
             THEN UNCHANGED <<buffer, suppress, visible, sink>>
             ELSE LET r == FilterFeed(buffer, suppress, text)
                  IN  /\ buffer' = r.buffer
                      /\ suppress' = r.suppress
                      /\ visible' = r.visible
                      /\ sink' = sink \o r.visible
    /\ chunks' = chunks + 1
    /\ UNCHANGED <<stream, fed, prevFed, open_at_end, agentVars>>

\* The stream is exhausted (agent.py:225-227): the handler gets a line break
\* and _invoke_agent returns.
EndInvoke ==
    /\ pc = "streaming"
    /\ sink' = IF config.stream_handler THEN sink \o <<"\n">> ELSE sink
    /\ open_at_end' = suppress
    /\ turn' = turn + 1
    /\ pc' = "invoke"
    /\ UNCHANGED <<stream, fed, prevFed, buffer, suppress, visible, chunks, chunk_text,
                   config, llm, stateVars, is_scene, step_index, step_result, results,
                   context_text, lc_messages, base_len, intervened, historyVars, apiVars>>

StreamNext == BeginInvoke \/ HandleStreamChunk \/ EndInvoke

\* The invocations of the LangChain agent, one per turn, with or without
\* streaming.
SpecStream == StreamInit /\ [][StreamNext]_vars

\* A fresh ConversationState whose methods a caller invokes.
StateInit == AgentIdle("api") /\ FilterIdle /\ ApiIdle

StateNext == SetTopology \/ RecordStepCall \/ ProvidePersistentPrompts

SpecState == StateInit /\ [][StateNext]_vars

\* _step_is_complete called on some result, turn index and min_react_turns.
CompleteInit ==
    /\ FilterIdle
    /\ ApiIdle
    /\ config \in [auto_execute : {TRUE}, approval_callback : {FALSE},
                    max_react_turns : {7}, min_react_turns : (0 - 1)..MaxMinTurns,
                    stream : {FALSE}, stream_handler : {FALSE}]
    /\ turn \in 0..MaxTurnIndex
    /\ step_result \in {Some(StepResult(t, a, o, None)) :
                            t \in {<<"o", "k">>, FinishedTag},
                            a \in MarkerTexts, o \in MarkerTexts}
    /\ llm = [shape |-> "text", mark_turns |-> {}]
    /\ overall_goal = None
    /\ topo_json = EmptyTopo
    /\ plan_context = <<>>
    /\ current_step = "None"
    /\ persistent_prompts = {}
    /\ pc = "call"
    /\ is_scene = FALSE
    /\ step_index = 0
    /\ results = <<>>
    /\ context_text = <<>>
    /\ lc_messages = <<>>
    /\ base_len = 0
    /\ intervened = FALSE
    /\ step_history = <<>>
    /\ turn_log = <<>>
    /\ classifier_answer = None

CompleteNext == CallStepIsComplete

SpecComplete == CompleteInit /\ [][CompleteNext]_vars

\* is_scene_construction_goal called on a state whose goal is unset, empty
\* or set.
GateInit ==
    /\ FilterIdle
    /\ ApiIdle
    /\ config = DefaultConfig
    /\ llm = [shape |-> "text", mark_turns |-> {}]
    /\ overall_goal \in GateGoals
    /\ topo_json = EmptyTopo
    /\ plan_context = <<>>
    /\ current_step = "None"
    /\ persistent_prompts = {}
    /\ pc = "gate"
    /\ is_scene = FALSE
    /\ step_index = 0
    /\ turn = 0
    /\ step_result = <<>>
    /\ results = <<>>
    /\ context_text = <<>>
    /\ lc_messages = <<>>
    /\ base_len = 0
    /\ intervened = FALSE
    /\ step_history = <<>>
    /\ turn_log = <<>>
    /\ classifier_answer = None

GateNext == CallIsSceneConstructionGoal

SpecGate == GateInit /\ [][GateNext]_vars

\* _parse_react_blocks called on some response text.
ParseInit ==
    /\ FilterIdle
    /\ AgentIdle("parse")
    /\ calls = 0
    /\ last_call = [op |-> "None", step |-> "None", result |-> <<>>]
    /\ complete = None
    /\ parse_content \in ParseContents

ParseNext == CallParseReactBlocks

SpecParse == ParseInit /\ [][ParseNext]_vars

\* run_plan on an agent whose min_react_turns may be anything from below 1 to
\* above max_react_turns, with auto-execution or with an approval callback,
\* and whose chat model tags no answer, the second answer of a loop, or every
\* answer.
MinTurnsInit ==
    /\ FilterIdle
    /\ ApiIdle
    /\ config \in [auto_execute : BOOLEAN, approval_callback : {TRUE},
                    max_react_turns : 1..MaxTurns,
                    min_react_turns : (0 - 1)..MaxMinTurns,
                    stream : {FALSE}, stream_handler : {FALSE}]
    /\ llm \in [shape : {"text", "tools"}, mark_turns : {{}, {1}, MarkableTurns}]
    /\ overall_goal = None
    /\ topo_json = EmptyTopo
    /\ plan_context = <<>>
    /\ current_step = "None"
    /\ persistent_prompts = {}
    /\ pc = "init"
    /\ is_scene = FALSE
    /\ step_index = 0
    /\ turn = 0
    /\ step_result = <<>>
    /\ results = <<>>
    /\ context_text = <<>>
    /\ lc_messages = <<>>
    /\ base_len = 0
    /\ intervened = FALSE
    /\ step_history = <<>>
    /\ turn_log = <<>>
    /\ classifier_answer = None

\* The steps of a run whose gate never raises.
MinTurnsNext ==
    \/ RunPlan
    \/ Classify
    \/ BeginStep
    \/ SceneTurn
    \/ SceneConfirm
    \/ GenericTurn
    \/ GenericConfirm

SpecMinTurns == MinTurnsInit /\ [][MinTurnsNext]_vars

\* The largest number of messages the agent adds in the turn.
MaxMessages == 3

\* The messages the agent may add in a turn: assistant messages without a
\* tool call, with a named one and with an unnamed one, their text empty,
\* blank or not, and tool messages with and without output.
TurnMessageKinds ==
    {AIMessage(tool_calls, text) :
        tool_calls \in {<<>>, <<<<"T">>>>, <<<<>>>>},
        text \in {<<>>, <<" ">>, <<"t", "h">>}}
    \cup {ToolMessage(text) : text \in {<<>>, <<"o", "b">>}}

TurnMessageSeqs == UNION {[1..n -> TurnMessageKinds] : n \in 0..MaxMessages}

\* What the approval callback may return for the turn: the edited text may be
\* None, empty, blank or a text.
TurnAnswers ==
    [proceed : BOOLEAN,
     edited_think : {None, Some(<<>>), Some(<<" ">>), Some(<<"e", "d">>)}]

\* The first turn of the first plan step when the agent has returned
\* (agent.py:188-201): the history is the turn's prompt and the messages the
\* agent added.
TurnInit ==
    /\ FilterIdle
    /\ ApiIdle
    /\ config \in [auto_execute : BOOLEAN, approval_callback : {TRUE},
                    max_react_turns : {7}, min_react_turns : {2},
                    stream : {FALSE}, stream_handler : {FALSE}]
    /\ llm = [shape |-> "text", mark_turns |-> {}]
    /\ overall_goal = None
    /\ topo_json = EmptyTopo
    /\ plan_context = <<>>
    /\ current_step = "UNDERSTAND_INTENT"
    /\ persistent_prompts = {}
    /\ pc = "extract"
    /\ is_scene = TRUE
    /\ step_index = 1
    /\ turn = 0
    /\ step_result = <<>>
    /\ results = <<>>
    /\ context_text = NoHistory
    /\ \E new_messages \in TurnMessageSeqs :
          lc_messages = <<HumanMessage(HumanPrompt("UNDERSTAND_INTENT", NoHistory))>>
                        \o new_messages
    /\ base_len = 1
    /\ intervened = FALSE
    /\ step_history = <<"UNDERSTAND_INTENT">>
    /\ turn_log = <<>>
    /\ classifier_answer = None

\* The call of _extract_step_result that ends _run_react_turn (agent.py:202).
CallExtractStepResult ==
    /\ pc = "extract"
    /\ step_result' = Some(ExtractStepResult(DropFirst(lc_messages, base_len)))
    /\ pc' = "extracted"
    /\ UNCHANGED <<filterVars, config, llm, stateVars, is_scene, step_index, turn,
                   results, context_text, lc_messages, base_len, intervened,
                   historyVars, apiVars>>

\* The gate on the turn's result and record_step when it lets the result
\* pass (agent.py:149-151).
CallConfirmStep ==
    /\ pc = "extracted"
    /\ \E answer \in TurnAnswers :
          LET o == ConfirmStep(config, step_result[1], answer)
              rec == RecordStep(plan_context, topo_json, current_step, o.result)
          IN  /\ step_result' = Some(o.result)
              /\ plan_context' = IF o.should_continue THEN rec.plan_context
                                 ELSE plan_context
              /\ topo_json' = IF o.should_continue THEN rec.topo_json ELSE topo_json
    /\ pc' = "confirmed"
    /\ UNCHANGED <<filterVars, config, llm, overall_goal, current_step,
                   persistent_prompts, is_scene, step_index, turn, results,
                   context_text, lc_messages, base_len, intervened, historyVars,
                   apiVars>>

TurnNext == CallExtractStepResult \/ CallConfirmStep

\* One turn from the agent's messages to the recorded result.
SpecTurn == TurnInit /\ [][TurnNext]_vars

----------------------------------------------------------------------------
(* Reference reading of a whole text, independent of feed(): a single left *)
(* to right scan that knows the complete text.                             *)

IsAt(s, i, marker) ==
    /\ i + Len(marker) - 1 <= Len(s)
    /\ SubSeq(s, i, i + Len(marker) - 1) = marker

\* The characters of s outside every <think>...</think> span (an
\* unterminated start marker hides the rest of the text).
RECURSIVE Unhidden(_, _, _)
Unhidden(s, i, inside) ==
    IF i > Len(s) THEN <<>>
    ELSE IF inside
    THEN IF IsAt(s, i, EndMarker)
         THEN Unhidden(s, i + Len(EndMarker), FALSE)
         ELSE Unhidden(s, i + 1, TRUE)
    ELSE IF IsAt(s, i, StartMarker)
         THEN Unhidden(s, i + Len(StartMarker), TRUE)
         ELSE <<s[i]>> \o Unhidden(s, i + 1, FALSE)

\* The index of the start marker that is still open at the end of s, 0 when
\* s ends outside every span.
RECURSIVE OpenStart(_, _, _)
OpenStart(s, i, open) ==
    IF i > Len(s) THEN open
    ELSE IF open # 0
    THEN IF IsAt(s, i, EndMarker)
         THEN OpenStart(s, i + Len(EndMarker), 0)
         ELSE OpenStart(s, i + 1, open)
    ELSE IF IsAt(s, i, StartMarker)
         THEN OpenStart(s, i + Len(StartMarker), i)
         ELSE OpenStart(s, i + 1, 0)

\* Every start marker has its end marker, and no end marker stands alone.
WellFormed(s) ==
    /\ OpenStart(s, 1, 0) = 0
    /\ ~Contains(Unhidden(s, 1, FALSE), EndMarker)

\* "a" is written only outside the spans and "s" only inside them, and no
\* marker is left unmatched outside a span.
WellTagged(s) ==
    /\ \A i \in 1..Len(Unhidden(s, 1, FALSE)) : Unhidden(s, 1, FALSE)[i] = "a"
    /\ CountChar(s, "a") = Len(Unhidden(s, 1, FALSE))

StreamDone == fed = Len(stream)

\* C1: chunk-boundary independence -- when a well-formed stream has been fed
\* completely, in whatever chunks, the concatenated feed() results equal what
\* one feed() of the whole text to a fresh filter returns.
C1_ChunkIndependence ==
    (StreamDone /\ WellFormed(stream)) => sink = FeedWhole(stream)

\* C2: no hidden-reasoning text reaches the sink -- for a stream whose visible
\* text is written with "a" only, everything forwarded so far consists of "a":
\* no character of a span and no part of a marker.
C2_SinkNeverHidden ==
    WellTagged(stream) => \A i \in 1..Len(sink) : sink[i] = "a"

\* C3: unterminated start marker -- when the text fed before the latest feed()
\* call ended inside a span, and the span is still open after the call, the
\* call returned the empty text.
C3_UnterminatedSuppressed ==
    LET before == SubSeq(stream, 1, prevFed)
        after == SubSeq(stream, 1, fed)
    IN  (/\ fed > prevFed
         /\ OpenStart(before, 1, 0) # 0
         /\ OpenStart(after, 1, 0) = OpenStart(before, 1, 0))
        => visible = <<>>

----------------------------------------------------------------------------
(* Properties of run_plan.                                                 *)

\* The plan as the specification states it.
ClaimedOrder ==
    <<"UNDERSTAND_INTENT", "SELECT_NODE_TYPES", "DIVIDE_ZONES",
      "ASSIGN_NODE_ATTRIBUTES", "GENERATE_JSON", "GENERATE_SCENEGRAPH",
      "VERIFY_CODE">>

ClaimedSteps == {ClaimedOrder[i] : i \in 1..Len(ClaimedOrder)}

Pos(step) == CHOOSE i \in 1..Len(ClaimedOrder) : ClaimedOrder[i] = step

\* The positions in turn_log of the turns of one loop and step.
TurnsOf(loop, step) ==
    {i \in 1..Len(turn_log) : turn_log[i].loop = loop /\ turn_log[i].step = step}

AcceptedOf(loop, step) ==
    {i \in TurnsOf(loop, step) : turn_log[i].outcome = "accepted"}

\* The number of results plan_context holds for step.
Recorded(step) == Len(ResultsOf(plan_context, step))

\* The turn loop of step has ended: a later step has begun or run_plan is over.
StepOver(step) ==
    /\ \E i \in 1..Len(step_history) : step_history[i] = step
    /\ \/ step_history[Len(step_history)] # step
       \/ pc \in {"step", "returned", "raised"}

\* C4: in the scene branch current_step takes the seven steps in the stated
\* order, each once, none skipped (all seven when run_plan returns); the
\* turns of a step are consecutive and numbered one after the other, every
\* turn is followed by a turn of the same or of a later step, a turn runs under the step that is current_step, and
\* the results recorded under a step are those of its own accepted turns.
C4_FixedStepOrder ==
    /\ Len(step_history) <= Len(ClaimedOrder)
    /\ \A i \in 1..Len(step_history) : step_history[i] = ClaimedOrder[i]
    /\ current_step = IF step_history = <<>> THEN "None"
                      ELSE step_history[Len(step_history)]
    /\ (pc = "returned" /\ is_scene) => step_history = ClaimedOrder
    /\ \A i \in 1..Len(turn_log) :
          turn_log[i].loop = "scene" =>
             /\ turn_log[i].step \in ClaimedSteps
             /\ Pos(turn_log[i].step) <= Len(step_history)
             /\ i < Len(turn_log) =>
                   /\ Pos(turn_log[i].step) <= Pos(turn_log[i + 1].step)
                   /\ turn_log[i].step = turn_log[i + 1].step
                         => turn_log[i + 1].turn = turn_log[i].turn + 1
    /\ (pc = "confirm") => turn_log[Len(turn_log)].step = current_step
    /\ \A k \in 1..Len(plan_context) :
          /\ plan_context[k].step \in ClaimedSteps
          /\ Len(plan_context[k].results) =
                Cardinality(AcceptedOf("scene", plan_context[k].step))
    /\ \A st \in ClaimedSteps :
          Recorded(st) = Cardinality(AcceptedOf("scene", st))

\* A scene run that returned after a rejected turn: all seven steps were
\* visited although one of them was cut short.
C4_Witness ==
    /\ pc = "returned"
    /\ is_scene
    /\ step_history = ClaimedOrder
    /\ \E i \in 1..Len(turn_log) : turn_log[i].outcome = "rejected"
    /\ Len(turn_log) > Len(ClaimedOrder)

\* C5: turn budget -- no step and no generic loop executes more than
\* max_react_turns turns, so no step has more than max_react_turns results
\* recorded, and the generic list never holds more.
C5_TurnBudget ==
    /\ \A st \in ClaimedSteps :
          /\ Cardinality(TurnsOf("scene", st)) <= config.max_react_turns
          /\ Cardinality(TurnsOf("generic", st)) <= config.max_react_turns
          /\ Recorded(st) <= config.max_react_turns
    /\ Len(results) <= config.max_react_turns
    /\ turn < config.max_react_turns

\* A step that used the whole budget of three turns, all accepted, although
\* an answer carried the tag (too early to count).
C5_Witness ==
    /\ config.max_react_turns = 3
    /\ \E st \in ClaimedSteps :
          /\ StepOver(st)
          /\ Recorded(st) = 3
          /\ Cardinality(TurnsOf("scene", st)) = 3
    /\ llm.mark_turns # {}

\* C6: rejection is a hard stop -- after a rejected turn of a step no further
\* turn of that step is executed, the rejected result is not recorded, and the
\* step holds exactly the results of the turns accepted before the rejection
\* (likewise for the list of the generic loop).
C6_RejectionHardStop ==
    \A i \in 1..Len(turn_log) :
       turn_log[i].outcome = "rejected" =>
          LET st == turn_log[i].step
              loop == turn_log[i].loop
              before == {j \in AcceptedOf(loop, st) : j < i}
          IN  /\ \A j \in TurnsOf(loop, st) : j <= i
              /\ Cardinality(before) = turn_log[i].turn
              /\ loop = "scene" => Recorded(st) = Cardinality(before)
              /\ loop = "generic" => /\ Len(results) = Cardinality(before)
                                     /\ pc = "returned"

\* A step whose second turn was rejected, with run_plan past that step.
C6_Witness ==
    \E i \in 1..Len(turn_log) :
       /\ turn_log[i].outcome = "rejected"
       /\ turn_log[i].loop = "scene"
       /\ turn_log[i].turn = 1
       /\ config.max_react_turns = 3
       /\ Recorded(turn_log[i].step) = 1
       /\ StepOver(turn_log[i].step)
       /\ pc = "returned"

\* Scenario B: scene branch, auto-execution, min_react_turns = 2, a budget of
\* at least two turns, and in every turn loop the model's first answer is
\* untagged and its second answer carries [FINISHED] in the observation.
ScenarioB ==
    /\ is_scene
    /\ pc \notin {"init", "classify"}
    /\ config.auto_execute
    /\ config.min_react_turns = 2
    /\ config.max_react_turns >= 2
    /\ 0 \notin llm.mark_turns
    /\ 1 \in llm.mark_turns

HasTag(text) == Contains(text, <<"[", "F", "I", "N", "I", "S", "H", "E", "D", "]">>)

\* C8 as stated: in scenario B every finished step consumed exactly two turns
\* and has exactly one result recorded.
C8_ScenarioB_OneResult ==
    ScenarioB =>
       \A st \in ClaimedSteps :
          StepOver(st) => /\ Cardinality(TurnsOf("scene", st)) = 2
                          /\ Recorded(st) = 1

\* C8 (amended): in scenario B every finished step consumed exactly two turns
\* and has exactly two results recorded, one per turn, both accepted: the
\* untagged first and the tagged second.
C8_ScenarioB_TwoResults ==
    ScenarioB =>
       \A st \in ClaimedSteps :
          StepOver(st) =>
             /\ Cardinality(TurnsOf("scene", st)) = 2
             /\ Cardinality(AcceptedOf("scene", st)) = 2
             /\ Recorded(st) = 2
             /\ ~HasTag(ResultsOf(plan_context, st)[1].observe)
             /\ HasTag(ResultsOf(plan_context, st)[2].observe)

\* Scenario B run to its end with a budget of three turns per step.
C8_Witness ==
    /\ ScenarioB
    /\ pc = "returned"
    /\ config.max_react_turns = 3
    /\ \A st \in ClaimedSteps : StepOver(st)

\* The classifier was not asked, or its answer holds no "yes".
AnswerNotYes ==
    \/ classifier_answer = None
    \/ classifier_answer[1] \in {<<>>, <<"n", "o">>}

\* C9: generic branch -- when the classifier's answer does not count as yes,
\* run_plan runs the generic loop only: no plan step is entered, plan_context
\* stays as it was (empty on this fresh agent), and the accepted results are
\* exactly the entries of the local list.
C9_GenericBranchOnly ==
    (pc \notin {"init", "classify"} /\ AnswerNotYes) =>
       /\ ~is_scene
       /\ plan_context = <<>>
       /\ current_step = "None"
       /\ step_history = <<>>
       /\ \A i \in 1..Len(turn_log) : turn_log[i].loop = "generic"
       /\ Len(results) = Cardinality(AcceptedOf("generic", "UNDERSTAND_INTENT"))
       /\ pc \in {"generic_turn", "generic_confirm", "returned", "raised"}

\* A generic run, answered "no", that accepted a result, met a rejection and
\* returned.
C9_Witness ==
    /\ pc = "returned"
    /\ classifier_answer = Some(<<"n", "o">>)
    /\ Len(results) >= 1
    /\ \E i \in 1..Len(turn_log) : turn_log[i].outcome = "rejected"

----------------------------------------------------------------------------
(* Properties of single methods.                                           *)

\* The marker as the specification states it.
ClaimedMarker == <<"[", "f", "i", "n", "i", "s", "h", "e", "d", "]">>

\* C7: _step_is_complete returns true exactly when the 0-based turn index is
\* at least min_react_turns - 1 and the lowercased text of action or of
\* observe holds "[finished]"; the think text plays no part.
C7_CompletionHeuristic ==
    pc = "called" =>
       complete = Some(/\ turn >= config.min_react_turns - 1
                       /\ \/ Contains(Lower(step_result[1].action), ClaimedMarker)
                          \/ Contains(Lower(step_result[1].observe), ClaimedMarker))

\* The earliest turn at which a tagged observation ends a loop that asks for
\* three turns.
C7_Witness ==
    /\ pc = "called"
    /\ complete = Some(TRUE)
    /\ config.min_react_turns = 3
    /\ turn = 2
    /\ step_result[1].observe = FinishedTag
    /\ step_result[1].action = NotApplicable

\* C10: record_step appends the result to the results of its step and to no
\* other step's; it overwrites topo_json with the result's output when the
\* step is GENERATE_JSON and the output is neither None nor empty, and leaves
\* topo_json unchanged otherwise.
C10_RecordStepTopology ==
    [][(calls' = calls + 1 /\ last_call'.op = "record_step") =>
          LET step == last_call'.step
              result == last_call'.result[1]
          IN  /\ ResultsOf(plan_context', step)
                    = Append(ResultsOf(plan_context, step), result)
              /\ \A other \in ClaimedSteps \ {step} :
                    ResultsOf(plan_context', other) = ResultsOf(plan_context, other)
              /\ topo_json' = IF /\ step = "GENERATE_JSON"
                                 /\ result.output # None
                                 /\ result.output # Some(<<>>)
                              THEN result.output[1]
                              ELSE topo_json]_vars

\* A GENERATE_JSON result with an output was recorded after a result of
\* another step, and topo_json now is that output.
C10_Witness ==
    /\ calls = 2
    /\ last_call.op = "record_step"
    /\ last_call.step = "GENERATE_JSON"
    /\ last_call.result[1].output = Some(<<"{", "B", "}">>)
    /\ topo_json = <<"{", "B", "}">>
    /\ Len(plan_context) = 2

----------------------------------------------------------------------------
(* Properties of the approval gate inside run_plan.                        *)

\* The position of the accepted turn i among the accepted turns of its loop
\* and step.
Rank(i) ==
    Cardinality({j \in 1..i : /\ turn_log[j].loop = turn_log[i].loop
                              /\ turn_log[j].step = turn_log[i].step
                              /\ turn_log[j].outcome = "accepted"})

\* The result stored for the accepted turn i: in plan_context under the
\* turn's step, or in the list of the generic loop.
RecordedFor(i) ==
    IF turn_log[i].loop = "scene"
    THEN ResultsOf(plan_context, turn_log[i].step)[Rank(i)]
    ELSE results[Rank(i)]

\* The configuration without auto-execution and without an approval callback.
NoApprovalCapability == ~config.auto_execute /\ ~config.approval_callback

\* C11: with auto_execute the gate never invokes the approval callback,
\* whether one is configured or not; every executed turn is accepted, its
\* result is stored exactly as _run_react_turn returned it, and the run never
\* ends in the gate's error.
C11_AutoExecuteAccepts ==
    config.auto_execute =>
       /\ pc # "raised"
       /\ \A i \in 1..Len(turn_log) :
             /\ turn_log[i].answer = None
             /\ turn_log[i].outcome \in {"pending", "accepted"}
             /\ turn_log[i].outcome = "pending"
                   => i = Len(turn_log) /\ pc \in {"confirm", "generic_confirm"}
             /\ turn_log[i].outcome = "accepted"
                   => RecordedFor(i) = turn_log[i].result

\* A scene run with auto_execute and a configured callback that returned with
\* results under all seven steps.
C11_Witness ==
    /\ config.auto_execute
    /\ config.approval_callback
    /\ pc = "returned"
    /\ is_scene
    /\ \A st \in ClaimedSteps : Recorded(st) >= 1

\* C12: without auto_execute and without an approval callback the first call
\* of the gate raises, run_plan ends there, and nothing has been recorded:
\* plan_context is what it was before the run (empty), the list of the
\* generic loop is empty, no turn was accepted or rejected and no second turn
\* was started.
C12_MissingCallbackAborts ==
    NoApprovalCapability =>
       /\ plan_context = <<>>
       /\ results = <<>>
       /\ pc # "returned"
       /\ Len(turn_log) <= 1
       /\ \A i \in 1..Len(turn_log) : turn_log[i].outcome \in {"pending", "raised"}
       /\ (turn_log # <<>> /\ pc \notin {"confirm", "generic_confirm"})
             => /\ pc = "raised"
                /\ turn_log[1].outcome = "raised"

\* The gate raised in the first turn of the first plan step.
C12_Witness ==
    /\ NoApprovalCapability
    /\ pc = "raised"
    /\ is_scene
    /\ current_step = "UNDERSTAND_INTENT"
    /\ plan_context = <<>>

\* C13: without auto_execute and without an approval callback the error is
\* raised before any ReAct turn is executed: no turn of a plan step or of the
\* generic loop ever runs in such a run.
C13_RaisedBeforeAnyTurn ==
    NoApprovalCapability => turn_log = <<>>

\* What is stored for a turn that the callback let proceed: the turn's result
\* with the edited text as its think when the callback supplied one.
ClaimedFinal(entry) ==
    LET edited == entry.answer[1].edited_think
        original == entry.result
    IN  [think |-> IF edited # None THEN edited[1] ELSE original.think,
         action |-> original.action,
         observe |-> original.observe,
         output |-> original.output]

\* The results stored where those of the turn's loop and step go.
StoredWith(entry) ==
    IF entry.loop = "scene" THEN ResultsOf(plan_context, entry.step) ELSE results

----------------------------------------------------------------------------
(* Properties of the goal and classifier gate.                             *)

\* The goal is unset or the empty text.
GoalMissing == overall_goal = None \/ overall_goal = Some(<<>>)

\* C15: when derive_goal has left an empty goal, is_scene_construction_goal
\* returns false without sending the classifier prompt, and run_plan goes on
\* in the generic loop: no plan step is entered, and the run ends in an error
\* only for want of an approval capability.
C15_EmptyGoalGeneric ==
    (pc # "init" /\ GoalMissing) =>
       /\ classifier_answer = None
       /\ ~is_scene
       /\ step_history = <<>>
       /\ plan_context = <<>>
       /\ pc \in {"classify", "generic_turn", "generic_confirm", "returned", "raised"}
       /\ pc = "raised" => NoApprovalCapability
       /\ \A i \in 1..Len(turn_log) : turn_log[i].loop = "generic"

\* A run whose goal came out empty and whose generic loop returned with an
\* accepted result.
C15_Witness ==
    /\ overall_goal = Some(<<>>)
    /\ pc = "returned"
    /\ Len(results) >= 1
    /\ classifier_answer = None

\* C16: when the model's answer to the goal prompt is empty or blank,
\* derive_goal fails and the failure ends run_plan: the classifier is not
\* asked and no turn is executed.
C16_EmptyGoalRaises ==
    (pc # "init" /\ overall_goal = Some(<<>>)) =>
       /\ pc = "raised"
       /\ classifier_answer = None
       /\ turn_log = <<>>

\* "yes" in any letter case somewhere in the text.
HasYes(text) ==
    \E i \in 1..(Len(text) - 2) :
       /\ text[i] \in {"y", "Y"}
       /\ text[i + 1] \in {"e", "E"}
       /\ text[i + 2] \in {"s", "S"}

\* C20: with a goal that is set and not empty the classifier prompt is sent
\* and is_scene_construction_goal returns true exactly when the answer holds
\* "yes" in any letter case anywhere; without such a goal it returns false
\* and sends nothing.
C20_ClassifierBoundary ==
    pc = "gated" =>
       IF overall_goal # None /\ overall_goal[1] # <<>>
       THEN /\ classifier_answer # None
            /\ is_scene = HasYes(classifier_answer[1])
       ELSE /\ classifier_answer = None
            /\ ~is_scene

\* A mixed-case "yes" inside a longer answer counted as true.
C20_Witness ==
    /\ pc = "gated"
    /\ overall_goal = Some(<<"g">>)
    /\ classifier_answer = Some(<<"n", "Y", "e", "S">>)
    /\ is_scene

----------------------------------------------------------------------------
(* Properties of _parse_react_blocks.                                      *)

\* A line of text starts with head.
HasLineHead(text, head) ==
    \E i \in 1..Len(text) :
       /\ i = 1 \/ text[i - 1] = "\n"
       /\ IsAt(text, i, head)

\* C17: for every response text the parsed result has a non-empty think and
\* a non-empty observe; action is "N/A" when the text has no Action: line;
\* think is the whole trimmed text when it has no Think: line and observe is
\* the whole trimmed text when it has no Observe: line.
C17_ParserTotality ==
    pc = "parsed" =>
       LET parsed == step_result[1]
       IN  /\ parsed.think # <<>>
           /\ parsed.observe # <<>>
           /\ ~HasLineHead(parse_content, <<"A", "c", "t", "i", "o", "n", ":">>)
                 => parsed.action = <<"N", "/", "A">>
           /\ ~HasLineHead(parse_content, <<"T", "h", "i", "n", "k", ":">>)
                 => parsed.think = Trim(parse_content)
           /\ ~HasLineHead(parse_content, <<"O", "b", "s", "e", "r", "v", "e", ":">>)
                 => parsed.observe = Trim(parse_content)

----------------------------------------------------------------------------
(* Properties of the context snippet handed to a turn.                     *)

\* The snippet as the specification lays it out, built without the model's
\* operators: the texts of its lines, and the lines joined by line breaks.
ClaimedDigit(n) == <<"0", "1", "2", "3", "4", "5", "6", "7", "8", "9">>[n + 1]

ClaimedLine(label, k, observe) ==
    label \o <<" ", "#", ClaimedDigit(k), ":", " ">> \o observe

ClaimedStepLabel(step) == <<"S", ClaimedDigit(Pos(step))>>

ClaimedGoalLine ==
    IF overall_goal # None /\ overall_goal[1] # <<>>
    THEN <<<<"g", "o", "a", "l", ":", " ">> \o overall_goal[1]>>
    ELSE <<>>

ClaimedPlaceholder == <<"(", "n", "o", "n", "e", ")">>

RECURSIVE ClaimedText(_)
ClaimedText(lines) ==
    IF lines = <<>> THEN ClaimedPlaceholder
    ELSE IF Len(lines) = 1 THEN lines[1]
    ELSE lines[1] \o <<"\n">> \o ClaimedText(Tail(lines))

\* A turn has been handed its snippet and its result is not yet decided.
TurnHandedContext == pc \in {"confirm", "generic_confirm"}

\* One line for every turn before turn n that the gate accepted, in the order
\* of the turns.
RECURSIVE AcceptedLines(_, _)
AcceptedLines(i, n) ==
    IF i >= n THEN <<>>
    ELSE (IF turn_log[i].outcome = "accepted"
          THEN <<ClaimedLine(IF turn_log[i].loop = "scene"
                             THEN ClaimedStepLabel(turn_log[i].step)
                             ELSE <<"c", "t", "x">>,
                             Rank(i), turn_log[i].result.observe)>>
          ELSE <<>>)
         \o AcceptedLines(i + 1, n)

\* C18: the snippet handed to a turn holds, after the goal line, exactly one
\* line for each result accepted in the turns before it, in their order, and
\* nothing for a rejected turn; the turn numbers of a loop count up by one.
C18_ContextOfAcceptedResults ==
    TurnHandedContext =>
       /\ context_text = ClaimedText(ClaimedGoalLine
                                     \o AcceptedLines(1, Len(turn_log)))
       /\ turn_log[Len(turn_log)].turn = turn
       /\ \A i \in 1..(Len(turn_log) - 1) :
             turn_log[i].outcome \in {"accepted", "rejected"}

\* A turn of a later step is handed its snippet after two accepted turns and
\* a rejected one.
C18_Witness ==
    /\ pc = "confirm"
    /\ Cardinality({i \in 1..Len(turn_log) : turn_log[i].outcome = "accepted"}) >= 2
    /\ \E i \in 1..Len(turn_log) :
          /\ turn_log[i].outcome = "rejected"
          /\ turn_log[i].step # turn_log[Len(turn_log)].step

\* The lines of the results stored under the plan steps from position p on,
\* in plan order.
RECURSIVE ClaimedStepLines(_)
ClaimedStepLines(p) ==
    IF p > Len(ClaimedOrder) THEN <<>>
    ELSE [k \in 1..Recorded(ClaimedOrder[p]) |->
             ClaimedLine(ClaimedStepLabel(ClaimedOrder[p]), k,
                         ResultsOf(plan_context, ClaimedOrder[p])[k].observe)]
         \o ClaimedStepLines(p + 1)

\* The lines of the in-progress results of the generic loop.
ClaimedExtraLines ==
    IF pc = "generic_confirm"
    THEN [k \in 1..Len(results) |->
             ClaimedLine(<<"c", "t", "x">>, k, results[k].observe)]
    ELSE <<>>

----------------------------------------------------------------------------
(* Properties of the message history handed to the model.                  *)

\* The messages the latest turn handed to the model: the history as it was
\* plus the turn's prompt.
PassedMessages == SubSeq(lc_messages, 1, base_len)

\* A prompt written for step: it opens with the step's label.
PromptOf(message, step) ==
    /\ message.type = "human"
    /\ Len(message.content) >= 3
    /\ SubSeq(message.content, 1, 3) = ClaimedStepLabel(step) \o <<"|">>

\* C21: the first turn of every plan step, and of the generic loop, hands the
\* model exactly one message, the turn's own prompt, which carries the
\* context snippet; at a later turn the model is handed one prompt per turn
\* of the running loop so far, all written for the running step, and the
\* messages the model added in those turns: nothing of an earlier step.
C21_FreshHistoryPerStep ==
    TurnHandedContext =>
       LET step == turn_log[Len(turn_log)].step
           prompts == {k \in 1..base_len : PassedMessages[k].type = "human"}
       IN  /\ base_len <= Len(lc_messages)
           /\ turn = 0 =>
                 PassedMessages =
                    <<[type |-> "human", tool_calls |-> <<>>,
                       content |-> ClaimedStepLabel(step) \o <<"|">> \o context_text]>>
           /\ \A k \in prompts : PromptOf(PassedMessages[k], step)
           /\ Cardinality(prompts) = turn + 1
           /\ PassedMessages[base_len].type = "human"
           /\ \A k \in (base_len + 1)..Len(lc_messages) : lc_messages[k].type # "human"

\* The first turn of the second plan step, after a first step of two turns
\* with tool calls: the model is handed the new prompt alone.
C21_Witness ==
    /\ pc = "confirm"
    /\ turn = 0
    /\ current_step = "SELECT_NODE_TYPES"
    /\ Recorded("UNDERSTAND_INTENT") = 2
    /\ llm.shape = "tools"
    /\ base_len = 1
    /\ Len(lc_messages) = 4

----------------------------------------------------------------------------
(* Properties of the streamed turns.                                       *)

\* A stream is running whose text can reach the handler.
Forwarding == pc = "streaming" /\ config.stream /\ config.stream_handler

\* C22: when the stream of a turn starts and a handler is set, the filter is
\* in its initial state (empty buffer, not suppressing), whatever the stream
\* of the turn before left open; so visible text that comes first in a
\* turn's stream is forwarded whole.
C22_FreshFilterPerTurn ==
    Forwarding =>
       /\ chunks = 0 => (buffer = <<>> /\ ~suppress)
       /\ (chunks = 1 /\ chunk_text = <<"a">>) =>
             /\ visible = <<"a">>
             /\ sink # <<>>
             /\ sink[Len(sink)] = "a"

\* The second turn's stream has delivered visible text first, after a first
\* turn whose stream ended inside a span.
C22_Witness ==
    /\ Forwarding
    /\ turn = 1
    /\ open_at_end
    /\ chunks = 1
    /\ chunk_text = <<"a">>
    /\ ~suppress

----------------------------------------------------------------------------
(* Properties of the result extracted from a turn's messages.              *)

\* The messages the agent added in the turn.
NewMessages == SubSeq(lc_messages, base_len + 1, Len(lc_messages))

\* Reference text operations, written without the model's operators.
RECURSIVE Glued(_, _)
Glued(sep, texts) ==
    IF texts = <<>> THEN <<>>
    ELSE IF Len(texts) = 1 THEN texts[1]
    ELSE texts[1] \o sep \o Glued(sep, Tail(texts))

Stripped(text) ==
    LET inked == {i \in 1..Len(text) : text[i] \notin {" ", "\n"}}
    IN  IF inked = {} THEN <<>>
        ELSE SubSeq(text, CHOOSE i \in inked : \A j \in inked : i <= j,
                          CHOOSE i \in inked : \A j \in inked : i >= j)

\* The names of the tool calls the assistant messages of msgs request.
RECURSIVE RequestedNames(_)
RequestedNames(msgs) ==
    IF msgs = <<>> THEN <<>>
    ELSE (IF msgs[1].type = "ai"
          THEN SelectSeq(msgs[1].tool_calls, LAMBDA name : name # <<>>)
          ELSE <<>>)
         \o RequestedNames(Tail(msgs))

ContentsOf(msgs, type) ==
    LET chosen == SelectSeq(msgs, LAMBDA m : m.type = type /\ m.content # <<>>)
    IN  [k \in 1..Len(chosen) |-> chosen[k].content]

\* The StepResults the specification derives from the messages: one per tool
\* round trip, closed by the tool output, and one with action "N/A" for
\* assistant text that comes with no tool call.
RECURSIVE ClaimedRoundTrips(_, _)
ClaimedRoundTrips(msgs, pending) ==
    IF msgs = <<>> THEN <<>>
    ELSE LET m == msgs[1]
         IN  IF m.type = "ai" /\ m.tool_calls # <<>>
             THEN ClaimedRoundTrips(Tail(msgs),
                     <<[think |-> m.content,
                        action |-> Glued(<<";", " ">>, m.tool_calls)]>>)
             ELSE IF m.type = "tool" /\ pending # <<>>
             THEN <<[think |-> pending[1].think, action |-> pending[1].action,
                     observe |-> m.content]>>
                  \o ClaimedRoundTrips(Tail(msgs), <<>>)
             ELSE IF m.type = "ai"
             THEN <<[think |-> m.content, action |-> <<"N", "/", "A">>,
                     observe |-> m.content]>>
                  \o ClaimedRoundTrips(Tail(msgs), pending)
             ELSE ClaimedRoundTrips(Tail(msgs), pending)

\* The messages of the turn as a tool-calling agent lays them out: every
\* assistant message that requests a tool call is followed by the tool's
\* output, assistant text without a tool call ends the turn, every text is
\* not blank and every tool call has a name.
PlainMessages ==
    \A k \in 1..Len(NewMessages) :
       /\ Stripped(NewMessages[k].content) # <<>>
       /\ \A c \in 1..Len(NewMessages[k].tool_calls) :
             NewMessages[k].tool_calls[c] # <<>>
       /\ NewMessages[k].type = "tool" =>
             /\ k > 1
             /\ NewMessages[k - 1].type = "ai"
             /\ NewMessages[k - 1].tool_calls # <<>>
       /\ NewMessages[k].type = "ai" =>
             IF NewMessages[k].tool_calls # <<>>
             THEN /\ k < Len(NewMessages)
                  /\ NewMessages[k + 1].type = "tool"
             ELSE k = Len(NewMessages)

\* C23 as stated: what the extraction returns for a turn is the list of
\* StepResults of the turn's tool round trips, followed by one with action
\* "N/A" for trailing assistant text.
C23_ResultPerRoundTrip ==
    (pc = "extracted" /\ PlainMessages /\ ClaimedRoundTrips(NewMessages, <<>>) # <<>>) =>
       <<[think |-> step_result[1].think, action |-> step_result[1].action,
          observe |-> step_result[1].observe]>>
          = ClaimedRoundTrips(NewMessages, <<>>)

\* C23 (amended): the extraction returns one StepResult for the turn: think
\* is the assistant texts of the turn joined by line breaks, trailing text
\* included (a placeholder without any), action the requested tool names
\* joined by "; " ("N/A" without any), observe the tool outputs joined by line
\* breaks (think without any), output None.
C23_OneResultPerTurn ==
    pc = "extracted" =>
       LET think == Stripped(Glued(<<"\n">>, ContentsOf(NewMessages, "ai")))
           action == Stripped(Glued(<<";", " ">>, RequestedNames(NewMessages)))
           observe == Stripped(Glued(<<"\n">>, ContentsOf(NewMessages, "tool")))
           result == step_result[1]
       IN  /\ result.think = IF think # <<>> THEN think
                             ELSE <<"(", "n", "o", "-", "t", "h", "i", "n", "k", ")">>
           /\ result.action = IF action # <<>> THEN action ELSE <<"N", "/", "A">>
           /\ result.observe = IF observe # <<>> THEN observe ELSE result.think
           /\ result.output = <<>>

\* A tool round trip followed by assistant text: one result holds both
\* assistant texts, the tool's name and the tool's output.
C23_Witness ==
    /\ pc = "extracted"
    /\ NewMessages = <<[type |-> "ai", tool_calls |-> <<<<"T">>>>, content |-> <<"t", "h">>],
                       [type |-> "tool", tool_calls |-> <<>>, content |-> <<"o", "b">>],
                       [type |-> "ai", tool_calls |-> <<>>, content |-> <<"t", "h">>]>>
    /\ step_result[1].think = <<"t", "h", "\n", "t", "h">>
    /\ step_result[1].action = <<"T">>
    /\ step_result[1].observe = <<"o", "b">>

\* A tool call with a name among the messages of the turn.
NamedToolCall ==
    \E k \in 1..Len(NewMessages) :
       /\ NewMessages[k].type = "ai"
       /\ \E c \in 1..Len(NewMessages[k].tool_calls) :
             NewMessages[k].tool_calls[c] # <<>>

\* C24: every StepResult stored in plan_context has a non-empty think, a
\* non-empty observe and a non-empty action, and its action is "N/A" exactly
\* when the turn's messages hold no named tool call -- whatever messages the
\* turn produced and whatever the approval callback answered.
C24_StoredResultsFilled ==
    \A k \in 1..Len(plan_context) :
       \A n \in 1..Len(plan_context[k].results) :
          LET stored == plan_context[k].results[n]
          IN  /\ stored.think # <<>>
              /\ stored.observe # <<>>
              /\ stored.action # <<>>
              /\ (stored.action = <<"N", "/", "A">>) <=> ~NamedToolCall

\* A turn with a blank assistant text, an unnamed tool call and an empty tool
\* output was let pass by the callback: the stored result holds "N/A" and
\* the same text as think and as observe.
C24_Witness ==
    /\ pc = "confirmed"
    /\ ~config.auto_execute
    /\ NewMessages = <<[type |-> "ai", tool_calls |-> <<<<>>>>, content |-> <<" ">>],
                       [type |-> "tool", tool_calls |-> <<>>, content |-> <<>>]>>
    /\ Len(plan_context) = 1
    /\ plan_context[1].results[1].action = <<"N", "/", "A">>
    /\ plan_context[1].results[1].think = plan_context[1].results[1].observe

----------------------------------------------------------------------------
(* Termination of run_plan.                                                *)

\* A call of the chat model or of the LangChain agent returns: derive_goal,
\* is_scene_construction_goal and _run_react_turn get past it.
ModelReturns ==
    \/ pc = "init" /\ pc' = "classify"
    \/ pc = "classify" /\ pc' \in {"step", "generic_turn"}
    \/ pc = "turn" /\ pc' = "confirm"
    \/ pc = "generic_turn" /\ pc' = "generic_confirm"

\* The call of the gate ends, by returning or by raising.
GateReturns ==
    /\ pc \in {"confirm", "generic_confirm"}
    /\ pc' \in {"turn", "step", "generic_turn", "returned", "raised"}

\* The for loop over the plan enters its next step.
StepBegins == pc = "step" /\ pc' = "turn"

\* run_plan on a freshly constructed agent, every call of the model and of
\* the approval callback returning: the run moves on from every point where
\* it waits for one of them, and from the head of the plan loop.
SpecLive ==
    /\ Init
    /\ [][Next]_vars
    /\ WF_pc(ModelReturns)
    /\ WF_pc(GateReturns)
    /\ WF_pc(StepBegins)

\* The run can move on wherever it has not ended: the gate has an answer to
\* return unless it raises, and the plan loop stands on a step of the plan.
NeverStuck ==
    /\ pc \in {"init", "classify", "step", "turn", "confirm", "generic_turn",
                "generic_confirm", "returned", "raised"}
    /\ (pc \in {"confirm", "generic_confirm"} /\ ~NoApprovalCapability) =>
          /\ step_result # <<>>
          /\ \E answer \in [proceed : BOOLEAN, edited_think : {<<>>, <<<<"e", "d">>>>}] :
                answer \in AnswersNow(config, intervened)
    /\ pc = "step" => step_index \in 1..Len(ClaimedOrder)
    /\ pc = "turn" => step_index \in 1..Len(ClaimedOrder)

\* The confirmed result of turn i lets its loop end: the minimum of turns is
\* reached and action or observe holds the marker.
MarkedComplete(i) ==
    /\ turn_log[i].turn + 1 >= config.min_react_turns
    /\ \/ Contains(Lower(turn_log[i].result.action), ClaimedMarker)
       \/ Contains(Lower(turn_log[i].result.observe), ClaimedMarker)

\* Turn i was the last turn of its turn loop, and the loop ended by leaving
\* the loop, not by an error.
LoopEndedAt(i) ==
    IF i < Len(turn_log) THEN turn_log[i + 1].turn = 0
    ELSE pc \in {"step", "returned"}

\* The turn loops end for the three stated reasons only, and the run stays
\* within its budget of turns.
BoundedTurns ==
    /\ Len(turn_log) <= (IF is_scene THEN 7 ELSE 1) * config.max_react_turns
    /\ \A i \in 1..Len(turn_log) :
          LoopEndedAt(i) =>
             \/ turn_log[i].outcome = "accepted" /\ MarkedComplete(i)
             \/ turn_log[i].outcome = "rejected"
             \/ turn_log[i].turn + 1 = config.max_react_turns

\* C25: run_plan ends -- it returns, or the gate raises for want of an
\* approval capability -- after at most 7 * max_react_turns turns in the
\* scene branch and max_react_turns in the generic branch; a turn loop ends
\* only because the completion test held for its last turn, the gate rejected
\* its last turn, or max_react_turns turns were executed.
C25_RunTerminates ==
    /\ []BoundedTurns
    /\ []NeverStuck
    /\ <>(pc = (IF NoApprovalCapability THEN "raised" ELSE "returned"))

\* A scene run that returned after the largest number of turns, 7 times 3.
C25_Witness ==
    /\ pc = "returned"
    /\ is_scene
    /\ config.max_react_turns = 3
    /\ Len(turn_log) = 21

----------------------------------------------------------------------------
(* Frame of a turn.                                                        *)

\* C26: the step that executes a ReAct turn leaves overall_goal, topo_json,
\* plan_context, current_step and persistent_prompts as they were; and
\* whenever plan_context changes, the step is the one that follows a turn,
\* the gate accepted the turn, and the change is the turn's confirmed result
\* appended to the results of the current step, every other step's results
\* untouched.
C26_TurnLeavesState ==
    [][/\ pc \in {"turn", "generic_turn"} =>
             /\ overall_goal' = overall_goal
             /\ topo_json' = topo_json
             /\ plan_context' = plan_context
             /\ current_step' = current_step
             /\ persistent_prompts' = persistent_prompts
             /\ pc' \in {"confirm", "generic_confirm"}
       /\ plan_context' # plan_context =>
             /\ pc = "confirm"
             /\ turn_log'[Len(turn_log')].outcome = "accepted"
             /\ ResultsOf(plan_context', current_step)
                   = Append(ResultsOf(plan_context, current_step), step_result'[1])
             /\ \A other \in ClaimedSteps \ {current_step} :
                   ResultsOf(plan_context', other) = ResultsOf(plan_context, other)
             /\ current_step' = current_step]_vars

\* A turn of the third plan step has just been executed on a state with a
\* goal, a seeded topology and results of two earlier steps.
C26_Witness ==
    /\ pc = "confirm"
    /\ current_step = "DIVIDE_ZONES"
    /\ overall_goal = Some(<<"g">>)
    /\ topo_json = <<"{", "A", "}">>
    /\ Recorded("UNDERSTAND_INTENT") = 2
    /\ Recorded("SELECT_NODE_TYPES") = 1
    /\ Recorded("DIVIDE_ZONES") = 1
    /\ turn = 1

----------------------------------------------------------------------------
(* Rejection and the rest of the plan.                                     *)

\* The plan step after step, for a step that is not the last.
Successor(step) == ClaimedOrder[Pos(step) + 1]

IsLastStep(step) == Pos(step) = Len(ClaimedOrder)

\* The latest turn was rejected, its step is not the last, and the plan loop
\* stands before the next step.
RejectedBeforeNextStep ==
    /\ pc = "step"
    /\ turn_log # <<>>
    /\ turn_log[Len(turn_log)].outcome = "rejected"
    /\ ~IsLastStep(turn_log[Len(turn_log)].step)

\* The first turn of the step that follows a rejected turn's step has been
\* executed, under that step as current_step.
NextStepTurned ==
    /\ Len(turn_log) >= 2
    /\ turn_log[Len(turn_log) - 1].outcome = "rejected"
    /\ turn_log[Len(turn_log)].turn = 0
    /\ turn_log[Len(turn_log)].step = Successor(turn_log[Len(turn_log) - 1].step)
    /\ current_step = turn_log[Len(turn_log)].step

\* What holds of every rejected turn of a plan step at any moment.
RejectionLeavesPlanRunning ==
    \A i \in 1..Len(turn_log) :
       (turn_log[i].loop = "scene" /\ turn_log[i].outcome = "rejected") =>
          LET step == turn_log[i].step
          IN  /\ ~IsLastStep(step) =>
                    IF i < Len(turn_log)
                    THEN /\ turn_log[i + 1].step = Successor(step)
                         /\ turn_log[i + 1].turn = 0
                    ELSE /\ pc \in {"step", "turn"}
                         /\ pc = "turn" => current_step = Successor(step)
              /\ IsLastStep(step) => i = Len(turn_log) /\ pc = "returned"
              /\ turn_log[i].turn = 0 =>
                    \A k \in 1..Len(plan_context) : plan_context[k].step # step

\* C27: a rejection does not end the run -- after the gate rejects a turn of
\* a plan step that is not the last, the run has not ended, the next turn
\* executed is the first turn of the next step, and that turn is eventually
\* executed with the next step as current_step; a step rejected on its first
\* turn has no entry in plan_context, whatever later steps record.
C27_RejectionDoesNotAbort ==
    /\ []RejectionLeavesPlanRunning
    /\ RejectedBeforeNextStep ~> NextStepTurned

\* A run that returned: the second step was rejected on its first turn and
\* has no entry in plan_context, the steps after it recorded results.
C27_Witness ==
    /\ pc = "returned"
    /\ \E i \in 1..Len(turn_log) :
          /\ turn_log[i].step = "SELECT_NODE_TYPES"
          /\ turn_log[i].turn = 0
          /\ turn_log[i].outcome = "rejected"
    /\ \A k \in 1..Len(plan_context) : plan_context[k].step # "SELECT_NODE_TYPES"
    /\ Recorded("DIVIDE_ZONES") >= 1
    /\ Recorded("VERIFY_CODE") >= 1
    /\ Len(plan_context) = 6

----------------------------------------------------------------------------
(* The topology document during a run.                                     *)

\* No result of a turn, whether just returned, recorded in plan_context or
\* kept in the list of the generic loop, carries an output.
NoOutputAnywhere ==
    /\ step_result # <<>> => step_result[1].output = <<>>
    /\ \A k \in 1..Len(plan_context) :
          \A n \in 1..Len(plan_context[k].results) :
             plan_context[k].results[n].output = <<>>
    /\ \A n \in 1..Len(results) : results[n].output = <<>>

\* C28: every StepResult a turn produces and every recorded one has output
\* None, and once initialize_state has seeded topo_json no step of the run
\* changes it, the recording of GENERATE_JSON results included.
C28_TopologyKeepsSeed ==
    [][/\ NoOutputAnywhere'
       /\ pc # "init" => topo_json' = topo_json
       /\ pc = "init" => topo_json' \in {<<"{", "}">>, <<"{", "A", "}">>}]_vars

\* A scene run that returned with two results recorded under GENERATE_JSON
\* and the seeded topology still in place.
C28_Witness ==
    /\ pc = "returned"
    /\ is_scene
    /\ Recorded("GENERATE_JSON") = 2
    /\ topo_json = <<"{", "A", "}">>

----------------------------------------------------------------------------
(* The minimum of turns.                                                   *)

\* The least number of turns a step without a rejection takes.
LeastTurns ==
    LET wanted == IF config.min_react_turns >= 1 THEN config.min_react_turns ELSE 1
    IN  IF config.max_react_turns <= wanted THEN config.max_react_turns ELSE wanted

\* The confirmed result of turn i holds the marker in action or observe.
MarkedAt(i) ==
    \/ Contains(Lower(turn_log[i].result.action), ClaimedMarker)
    \/ Contains(Lower(turn_log[i].result.observe), ClaimedMarker)

\* C29: a turn loop whose last turn was accepted took at least
\* min(max_react_turns, max(1, min_react_turns)) turns, marker or not; with
\* min_react_turns of 1 or less an accepted first turn with the marker ends
\* the loop, as with 1; with max_react_turns below min_react_turns the loop of
\* an unrejected step takes exactly max_react_turns turns.
C29_MinimumTurns ==
    \A i \in 1..Len(turn_log) :
       turn_log[i].outcome = "accepted" =>
          /\ LoopEndedAt(i) =>
                /\ turn_log[i].turn + 1 >= LeastTurns
                /\ config.max_react_turns < config.min_react_turns
                      => turn_log[i].turn + 1 = config.max_react_turns
          /\ (config.min_react_turns <= 1 /\ turn_log[i].turn = 0 /\ MarkedAt(i)
              /\ (i < Len(turn_log) \/ pc \notin {"turn", "generic_turn"}))
                => LoopEndedAt(i)

\* Every answer carried the marker, max_react_turns is 2 and min_react_turns
\* is 3: the run returned after two turns for each of the seven steps.
C29_Witness ==
    /\ pc = "returned"
    /\ is_scene
    /\ config.max_react_turns = 2
    /\ config.min_react_turns = 3
    /\ \A i \in 1..Len(turn_log) : MarkedAt(i) /\ turn_log[i].outcome = "accepted"
    /\ Len(turn_log) = 14

====
